---- MODULE Spec2Model ----
(***************************************************************************)
(* A model of the Intuis Connect integration: the sticky-override          *)
(* reconciliation of IntuisData.async_update, the resilient request layer  *)
(* of IntuisAPI._async_request with its RateLimitCircuitBreaker and        *)
(* RequestThrottler.                                                       *)
(*                                                                         *)
(* Two clocks are kept apart, as in the code: `wall` is time.time() in     *)
(* whole seconds (the reconciler's now_ts), `clock` is the event loop's    *)
(* time in milliseconds (asyncio.sleep, time.monotonic, datetime.now of    *)
(* the breaker).                                                           *)
(***************************************************************************)
EXTENDS Integers, Sequences, FiniteSets, TLC

VARIABLES
    \* ---- IntuisData (intuis_data.py) ----
    wall,               \* time.time(), seconds
    overrides,          \* self._overrides: room id -> override record (a dict)
    options,            \* what self._get_options() returns
    poll_pc,            \* where async_update is: idle, reconcile, reapply, done
    polls,              \* poll cycles started so far
    data_by_room,       \* room ids of this cycle's snapshot
    now_ts,             \* async_update's now_ts
    indefinite_mode,    \* async_update's indefinite_mode
    overrides_changed,  \* async_update's overrides_changed
    rooms_to_clear,     \* async_update's rooms_to_clear
    todo,               \* rooms the loop over data_by_room has not visited yet
    inflight,           \* the async_set_room_state call being awaited (at most one)
    \* ---- what a cycle did (observation only) ----
    setstate_calls,     \* async_set_room_state calls the reconciler made this cycle
    save_calls,         \* invocations of self._save_overrides this cycle
    cycle_result,       \* none | returned | raised
    raised_by,          \* none | home_status | reapply | get_config
    cycle_start,        \* self._overrides when the cycle passed the home-status fetch
    reapply_ok,         \* rooms whose reapply succeeded this cycle
    reapply_failed,     \* [room, err] of the reapply calls that raised this cycle
    prev_failed,        \* rooms whose reapply raised a caught error in the cycle before
    persisted,          \* what the persistence hook last saved
    \* ---- the event loop's clock, shared by breaker, throttler and sleeps ----
    clock,              \* milliseconds
    \* ---- RateLimitCircuitBreaker ----
    consecutive_429s,   \* self._consecutive_429s
    circuit_open_until, \* self._circuit_open_until (NoDeadline: None)
    \* ---- RequestThrottler ----
    last_request,       \* self._last_request
    lock_holder,        \* who holds self._lock (NoCaller: free)
    \* ---- IntuisAPI token state ----
    access_token,       \* self._access_token (NoToken: None), a token's number
    refresh_token,      \* whether self._refresh_token is set
    expiry,             \* self._expiry (NoDeadline: None)
    \* ---- one caller of IntuisAPI._async_request ----
    ex_pc,              \* idle | check | throttle | ensure | send | done
    frames,             \* the activations of _async_request: the call and its 401 re-entry
    calls,              \* calls of _async_request started so far
    \* ---- what the calls did (observation only) ----
    result,             \* how the last call ended: none | ok | an error kind
    reqs,               \* requests sent so far, over all calls
    n_sent,             \* requests sent by the current call
    n_refresh,          \* token refreshes the current call made after a 401
    last_sent,          \* when the last request was sent
    last_gap,           \* time between the last two requests sent (0 with fewer than two)
    sent_wait,          \* what check() would have returned when the last request was sent
    last_status,        \* status of the last response (0: none, or a transport failure)
    last_attempt,       \* the loop's `attempt` when the last request was sent
    last_sleep,         \* the sleep taken after the last response, before the retry (0: none)
    n_429,              \* 429 responses the current call got
    n_fail,             \* 5xx responses and transport failures the current call got
    n_401,              \* 401 responses the current call got
    start_429s,         \* self._consecutive_429s when the current call began
    \* ---- IntuisAPI's configuration ----
    threshold,          \* circuit_threshold, the breaker's self._threshold
    rate_limit_delay,   \* self._rate_limit_delay, seconds
    on_rate_limit_callback, \* the breaker's self._on_rate_limit_callback: unset, or how it behaves
    \* ---- the 429 branch of the retry loop, on its own ----
    bo_attempt,         \* the loop's `attempt`
    bo_delay,           \* the `delay` last slept, milliseconds
    bo_total,           \* all it slept so far
    \* ---- a RateLimitCircuitBreaker driven directly ----
    brk_op,             \* the method last called: none | record_429 | record_success | check
    brk_ret,            \* what it returned, milliseconds
    brk_calls,          \* calls so far
    brk_ticks,          \* steps of time so far
    last_cooldown,      \* what record_429 last returned since the last record_success
    brk_raised,         \* the exception that left the method last called (none: it returned)
    hook_calls,         \* invocations of the rate-limit callback so far
    \* ---- concurrent callers of RequestThrottler.acquire ----
    th_pc,              \* per caller: idle | waiting (for the lock) | sleeping (holding it)
    wake_at,            \* when the sleeper's asyncio.sleep(wait_time) is over
    th_calls,           \* calls of acquire so far
    \* ---- what the acquires did (observation only) ----
    th_returns,         \* returns of acquire so far
    th_slept,           \* acquires that slept
    contended,          \* whether an acquire found the lock held
    last_return,        \* when acquire last returned
    return_gap,         \* time between the last two returns (0 with fewer than two)
    first_wait,         \* wait_time of the first acquire (0 before it)
    \* ---- IntuisConnectClimate, one entity per room ----
    attr,               \* per room: _attr_hvac_mode, _attr_preset_mode, _attr_target_temperature
    room_target,        \* per room: the target_temperature of the coordinator's snapshot
    \* ---- what the last user action did (observation only) ----
    acts,               \* user actions so far
    act,                \* the action: none | set_temperature | set_hvac_mode | set_preset_mode
    act_arg,            \* its argument: a temperature, an hvac mode or a preset
    act_room,           \* the room of the entity it was called on
    act_result,         \* none | returned | the error kind it raised
    act_calls,          \* the async_set_room_state calls it made, in order
    act_outcome,        \* how its executor call ended: none | ok | the error kind raised
    act_saves,          \* how often it invoked the save_overrides callback
    act_before,         \* the override map when it was called
    act_refresh,        \* whether it ended with coordinator.async_request_refresh()
    wire,               \* setstate requests in the order sent, where a user action and a poll cycle overlap
    \* ---- IntuisData._get_logical_day, called on its own ----
    ld_now,             \* its argument `now`, a datetime
    ld_reset_hour,      \* its argument reset_hour
    ld_result,          \* the isoformat it returned (<<>> before the call)
    ld_calls,           \* calls so far
    \* ---- IntuisData: the logical day, the heating minutes, the energy ----
    upd_now,            \* datetime.now(), the system's local time
    tz_offset,          \* hours the home's timezone is ahead of the system's
    bridged,            \* the rooms one of whose modules has a bridge
    success_callback,   \* self._success_callback: unset, or how it behaves
    last_logical_day,   \* self._last_logical_day (<<>>: None)
    last_update_timestamp, \* self._last_update_timestamp (NoDateTime: None)
    minutes_counter,    \* self._minutes_counter: room id -> seconds of heating
    energy_cache,       \* self._energy_cache: its "_date" entry (<<>>: none) and room id -> Wh
    upd_pc,             \* where async_update is: idle | mapped | done
    upd_polls,          \* poll cycles started so far
    \* ---- what the cycle did (observation only) ----
    upd_result,         \* none | returned | the error kind raised
    upd_raised_by,      \* none | home_status | get_config | energy | success_callback
    upd_snapshot,       \* data_by_room: room id -> heating
    upd_prev_day,       \* self._last_logical_day when the cycle began
    upd_cleared,        \* which of "minutes" and "energy" the cycle cleared
    minutes_before,     \* self._minutes_counter when the cycle began
    cache_before,       \* self._energy_cache when the energy fetch began
    cache_read,         \* whether the energy fetch read a room's value from the cache
    energy,             \* room.energy of the rooms it was assigned to (else the default 0.0)
    energy_requests,    \* the rooms an energy request was made for, in order
    energy_outcome,     \* how each of them ended
    success_calls       \* invocations of the success callback this cycle

pollVars == <<wall, overrides, options, poll_pc, polls, data_by_room, now_ts,
              indefinite_mode, overrides_changed, rooms_to_clear, todo, inflight,
              setstate_calls, save_calls, cycle_result, raised_by,
              cycle_start, reapply_ok, reapply_failed, prev_failed, persisted>>

breakerVars == <<consecutive_429s, circuit_open_until>>

throttleVars == <<last_request, lock_holder>>

tokenVars == <<access_token, refresh_token, expiry>>

callObs == <<last_attempt, last_sleep, n_429, n_fail, n_401, start_429s>>

execVars == <<ex_pc, frames, calls, result, reqs, n_sent, n_refresh, last_sent,
              last_gap, sent_wait, last_status, callObs>>

configVars == <<threshold, rate_limit_delay, on_rate_limit_callback>>

callerVars == <<th_pc, wake_at, th_calls, th_returns, th_slept, contended,
                last_return, return_gap, first_wait>>

\* all that belongs to IntuisAPI and its callers
backoffVars == <<bo_attempt, bo_delay, bo_total>>

driverVars == <<brk_op, brk_ret, brk_calls, brk_ticks, last_cooldown, brk_raised, hook_calls>>

apiVars == <<clock, configVars, breakerVars, throttleVars, tokenVars, execVars, callerVars,
             backoffVars, driverVars>>

entityVars == <<attr, room_target, acts, act, act_arg, act_room, act_result, act_calls, act_outcome,
                act_saves, act_before, act_refresh, wire>>

\* all that is neither the reconciler's nor IntuisAPI's
dayVars == <<ld_now, ld_reset_hour, ld_result, ld_calls>>

telemetryVars == <<upd_now, tz_offset, bridged, success_callback, last_logical_day,
                   last_update_timestamp, minutes_counter, energy_cache, upd_pc, upd_polls,
                   upd_result, upd_raised_by, upd_snapshot, upd_prev_day, upd_cleared,
                   minutes_before, cache_before, cache_read, energy, energy_requests,
                   energy_outcome, success_calls>>

homeVars == <<entityVars, dayVars, telemetryVars>>

vars == <<pollVars, apiVars, homeVars>>

(***************************************************************************)
(* Bounds of the model                                                     *)
(***************************************************************************)
MaxPolls == 2
StartWall == 100000

MaxCalls == 1
MaxRequests == 5
\* time one HTTP exchange takes, milliseconds
Latency == 100
StartClock == 250

NumCallers == 2

MaxAcquires == 3

MaxTicks == 4

TickMs == 250

MaxBreakerCalls == 12

MaxActions == 2

MaxRaceActions == 1

MaxUpdates == 2

MaxHeatingPolls == 3

MaxBreakerTicks == 3

BreakerTickSec == 40

Rooms == {"r1", "r2"}

(***************************************************************************)
(* Program constants                                                       *)
(***************************************************************************)
INDEFINITE_REAPPLY_BUFFER == 300
MIN_REAPPLY_INTERVAL == 120
DEFAULT_MANUAL_DURATION == 60
DEFAULT_AWAY_DURATION == 240
DEFAULT_BOOST_DURATION == 30
\* temperatures are in tenths of a degree: 16.0 and 22.0
DEFAULT_AWAY_TEMP == 160
DEFAULT_BOOST_TEMP == 220
DEFAULT_ENERGY_RESET_HOUR == 2
DEFAULT_UPDATE_INTERVAL == 2
DEFAULT_MAX_UPDATE_INTERVAL == 10

\* temp = None
NoTemp == -1

\* seconds, as the constants of const.py are written
DEFAULT_RATE_LIMIT_DELAY == 30
DEFAULT_CIRCUIT_THRESHOLD == 3
DEFAULT_RATE_LIMIT_MAX_DELAY == 60
DEFAULT_RATE_LIMIT_ATTEMPTS == 5
\* DEFAULT_MIN_REQUEST_DELAY = 0.5 s
MIN_REQUEST_DELAY_MS == 500
\* base_cooldown=30.0, max_cooldown=120.0
BASE_COOLDOWN == 30
MAX_COOLDOWN == 120
\* server_attempts = 3, server_delay = 1.5 s
SERVER_ATTEMPTS == 3
SERVER_DELAY_MS == 1500
\* data.get("expires_in", 10800)
DEFAULT_EXPIRES_IN == 10800
\* self._expiry - 60
EXPIRY_MARGIN == 60

\* None, for a timestamp and for a token
NoDeadline == 0
NoToken == 0
\* the asyncio.Lock is free
NoCaller == 0

Sec(s) == s * 1000

Modes == {"manual", "away", "boost", "hg"}

\* The four error kinds of the executor, and the raw aiohttp error that
\* _ensure_token's refresh lets through.
ErrorKinds == {"APIError", "CannotConnect", "RateLimitError", "InvalidAuth", "ClientError"}

\* a bare `except Exception` around the reapply call
ReapplyCaughtAll == ErrorKinds

\* except (APIError, CannotConnect, RateLimitError) around the reapply call
ReapplyCaught == {"APIError", "CannotConnect", "RateLimitError"}

\* except (APIError, CannotConnect, RateLimitError) around async_get_home_status
\* only logs and re-raises: every error kind leaves async_update.
HomeStatusErrors == ErrorKinds

\* the intervals at which the coordinator polls: the normal one and the
\* degraded one it backs off to when rate limited
PollIntervals == {DEFAULT_UPDATE_INTERVAL * 60, DEFAULT_MAX_UPDATE_INTERVAL * 60}

(***************************************************************************)
(* Options and overrides                                                   *)
(***************************************************************************)
\* options.get(CONF_..., DEFAULT_...)
DefaultOptions ==
    [indefinite_mode |-> FALSE,
     manual_duration |-> DEFAULT_MANUAL_DURATION,
     away_duration |-> DEFAULT_AWAY_DURATION,
     boost_duration |-> DEFAULT_BOOST_DURATION,
     away_temp |-> DEFAULT_AWAY_TEMP,
     boost_temp |-> DEFAULT_BOOST_TEMP,
     energy_scale |-> "1day",
     energy_reset_hour |-> DEFAULT_ENERGY_RESET_HOUR]

\* the option sets the config entry may hold: indefinite mode off or on
OptionSets == { [DefaultOptions EXCEPT !.indefinite_mode = im] : im \in BOOLEAN }

InitTemp == 205

\* "Get configured duration for this mode"
DurationFor(opts, mode) ==
    IF mode = "away" THEN opts.away_duration
    ELSE IF mode = "boost" THEN opts.boost_duration
    ELSE opts.manual_duration

\* an override whose end takes the duration for seconds
NewOverrideSeconds(mode, temp, at, duration) ==
    [mode |-> mode, temp |-> temp, end |-> at + duration,
     sticky |-> TRUE, last_reapply |-> at]

\* The override a user action stores at time `at` (climate.py): sticky, with
\* end = now_ts + duration * 60 and last_reapply = now_ts.
NewOverride(mode, temp, at, duration) ==
    [mode |-> mode, temp |-> temp, end |-> at + duration * 60,
     sticky |-> TRUE, last_reapply |-> at]

\* The override a user action stored `age` seconds before start-up, under
\* the default durations.
Stored(mode, remaining) ==
    NewOverride(mode, InitTemp,
                StartWall + remaining - DurationFor(DefaultOptions, mode) * 60,
                DurationFor(DefaultOptions, mode))

\* The overrides IntuisData is constructed with (loaded from storage): the
\* ones the user actions write, with their end still more than the reapply
\* buffer away (400 s), inside the buffer (60 s) or passed (-60 s), and two
\* entries only a stored file can hold: a non-sticky one and a manual one
\* without temp.
StoredOverrides ==
    { Stored("manual", -60), Stored("manual", 60), Stored("manual", 400),
      Stored("boost", 60), Stored("away", 400), Stored("hg", -60),
      [Stored("manual", -60) EXCEPT !.sticky = FALSE],
      [Stored("manual", 60) EXCEPT !.temp = NoTemp] }

\* dict.pop(room_id, None) for every room of `rs`
PopAll(ovs, rs) == [r \in (DOMAIN ovs) \ rs |-> ovs[r]]

\* "clean up orphaned overrides (rooms that no longer exist in API)"
Orphans(ovs, snapshot) == {r \in DOMAIN ovs : r \notin snapshot}

\* reapplying only once the override has run out
ReapplyDueLate(ov, now) ==
    /\ ov.end - now <= 0
    /\ now - ov.last_reapply >= MIN_REAPPLY_INTERVAL

\* if time_until_expiry <= INDEFINITE_REAPPLY_BUFFER
\*    and time_since_last_reapply >= MIN_REAPPLY_INTERVAL
ReapplyDue(ov, now) ==
    /\ ov.end - now <= INDEFINITE_REAPPLY_BUFFER
    /\ now - ov.last_reapply >= MIN_REAPPLY_INTERVAL

\* the comparison the wrong way round
ExpiredReversed(ov, now) == now < ov.end

\* if now_ts > end_ts
Expired(ov, now) == now > ov.end

\* async_set_room_state raises APIError("Manual mode requires temperature")
\* before any request is made.
SetRoomStateRejects(mode, temp) == mode = "manual" /\ temp = NoTemp

\* if overrides_changed and self._save_overrides
HasSaveHook == TRUE

(***************************************************************************)
(* IntuisData.async_update                                                 *)
(***************************************************************************)
PollFresh ==
    /\ wall = StartWall
    /\ poll_pc = "idle"
    /\ polls = 0
    /\ data_by_room = {}
    /\ now_ts = 0
    /\ indefinite_mode = FALSE
    /\ overrides_changed = FALSE
    /\ rooms_to_clear = {}
    /\ todo = {}
    /\ inflight = {}
    /\ setstate_calls = {}
    /\ save_calls = 0
    /\ cycle_result = "none"
    /\ raised_by = "none"
    /\ reapply_ok = {}
    /\ reapply_failed = {}
    /\ prev_failed = {}

\* IntuisData constructed with the overrides loaded from storage
PollInit ==
    /\ overrides \in UNION { [rs -> StoredOverrides] : rs \in SUBSET Rooms }
    /\ options \in OptionSets
    /\ cycle_start = overrides
    /\ persisted = overrides
    /\ PollFresh

\* await self._api.async_get_home_status() raises: logged and re-raised.
HomeStatusFailsData(err) ==
    /\ poll_pc = "idle"
    /\ polls < MaxPolls
    /\ poll_pc' = "done"
    /\ polls' = polls + 1
    /\ cycle_result' = "raised"
    /\ raised_by' = "home_status"
    /\ setstate_calls' = {}
    /\ save_calls' = 0
    /\ cycle_start' = overrides
    /\ reapply_ok' = {}
    /\ UNCHANGED <<wall, overrides, options, data_by_room, now_ts, indefinite_mode,
                   overrides_changed, rooms_to_clear, todo, inflight,
                   reapply_failed, prev_failed, persisted>>

HomeStatusFails(err) == HomeStatusFailsData(err) /\ UNCHANGED <<apiVars, homeVars>>

\* The home status arrived and the mapper built the snapshot: read the
\* options, take now_ts, sweep the orphans into rooms_to_clear.
PollBeginData(snapshot) ==
    /\ poll_pc = "idle"
    /\ polls < MaxPolls
    /\ polls' = polls + 1
    /\ data_by_room' = snapshot
    /\ indefinite_mode' = options.indefinite_mode
    /\ now_ts' = wall
    /\ rooms_to_clear' = Orphans(overrides, snapshot)
    /\ overrides_changed' = (Orphans(overrides, snapshot) # {})
    /\ todo' = snapshot
    /\ inflight' = {}
    /\ poll_pc' = "reconcile"
    /\ setstate_calls' = {}
    /\ save_calls' = 0
    /\ cycle_result' = "none"
    /\ raised_by' = "none"
    /\ cycle_start' = overrides
    /\ reapply_ok' = {}
    /\ reapply_failed' = {}
    /\ prev_failed' = {f.room : f \in {x \in reapply_failed : x.err \in ReapplyCaught}}
    /\ UNCHANGED <<wall, overrides, options, persisted>>

PollBegin(snapshot) == PollBeginData(snapshot) /\ UNCHANGED <<apiVars, homeVars>>

\* One pass of `for room_id, room in data_by_room.items()` up to its await.
ReconcileRoomData(r) ==
    /\ poll_pc = "reconcile"
    /\ r \in todo
    /\ IF r \notin DOMAIN overrides \/ ~overrides[r].sticky
       THEN \* continue
            /\ todo' = todo \ {r}
            /\ UNCHANGED <<poll_pc, inflight, setstate_calls, rooms_to_clear, overrides_changed>>
       ELSE IF indefinite_mode
       THEN IF ReapplyDue(overrides[r], now_ts)
            THEN LET call == [room |-> r, mode |-> overrides[r].mode,
                              temp |-> overrides[r].temp,
                              duration |-> DurationFor(options, overrides[r].mode)]
                 IN  /\ inflight' = {call}
                     /\ setstate_calls' = setstate_calls \cup {call}
                     /\ poll_pc' = "reapply"
                     /\ UNCHANGED <<todo, rooms_to_clear, overrides_changed>>
            ELSE /\ todo' = todo \ {r}
                 /\ UNCHANGED <<poll_pc, inflight, setstate_calls, rooms_to_clear, overrides_changed>>
       ELSE IF Expired(overrides[r], now_ts)
            THEN /\ rooms_to_clear' = rooms_to_clear \cup {r}
                 /\ overrides_changed' = TRUE
                 /\ todo' = todo \ {r}
                 /\ UNCHANGED <<poll_pc, inflight, setstate_calls>>
            ELSE /\ todo' = todo \ {r}
                 /\ UNCHANGED <<poll_pc, inflight, setstate_calls, rooms_to_clear, overrides_changed>>
    /\ UNCHANGED <<wall, overrides, options, polls, data_by_room, now_ts, indefinite_mode,
                   save_calls, cycle_result, raised_by, cycle_start,
                   reapply_ok, reapply_failed, prev_failed, persisted>>

ReconcileRoom(r) == ReconcileRoomData(r) /\ UNCHANGED <<apiVars, homeVars>>

\* The awaited async_set_room_state returned: "Update timestamps".
\* self._overrides[room_id] is looked up again after the await: it is the
\* entry the map holds now, and a KeyError (which the except clause does
\* not name) if the map holds none.
ReapplySucceedsData ==
    /\ poll_pc = "reapply"
    /\ \E call \in inflight :
        /\ ~SetRoomStateRejects(call.mode, call.temp)
        /\ IF call.room \in DOMAIN overrides
           THEN /\ overrides' = [overrides EXCEPT ![call.room].end = now_ts + call.duration * 60,
                                                  ![call.room].last_reapply = now_ts]
                /\ overrides_changed' = TRUE
                /\ reapply_ok' = reapply_ok \cup {call.room}
                /\ poll_pc' = "reconcile"
                /\ UNCHANGED <<cycle_result, raised_by>>
           ELSE /\ poll_pc' = "done"
                /\ cycle_result' = "raised"
                /\ raised_by' = "update_timestamps"
                /\ UNCHANGED <<overrides, overrides_changed, reapply_ok>>
        /\ todo' = todo \ {call.room}
    /\ inflight' = {}
    /\ UNCHANGED <<wall, options, polls, data_by_room, now_ts, indefinite_mode,
                   rooms_to_clear, setstate_calls, save_calls,
                   cycle_start, reapply_failed, prev_failed, persisted>>

ReapplySucceeds == ReapplySucceedsData /\ UNCHANGED <<apiVars, homeVars>>

\* The awaited async_set_room_state raised `err`: the three kinds of the
\* except clause are logged and the loop goes on; any other leaves
\* async_update.
ReapplyFailsData(err) ==
    /\ poll_pc = "reapply"
    /\ \E call \in inflight :
        /\ SetRoomStateRejects(call.mode, call.temp) => err = "APIError"
        /\ reapply_failed' = reapply_failed \cup {[room |-> call.room, err |-> err]}
        /\ todo' = todo \ {call.room}
    /\ inflight' = {}
    /\ IF err \in ReapplyCaught
       THEN /\ poll_pc' = "reconcile"
            /\ UNCHANGED <<cycle_result, raised_by>>
       ELSE /\ poll_pc' = "done"
            /\ cycle_result' = "raised"
            /\ raised_by' = "reapply"
    /\ UNCHANGED <<wall, overrides, options, polls, data_by_room, now_ts, indefinite_mode,
                   overrides_changed, rooms_to_clear, setstate_calls, save_calls,
                   cycle_start, reapply_ok, prev_failed, persisted>>

ReapplyFails(err) == ReapplyFailsData(err) /\ UNCHANGED <<apiVars, homeVars>>

\* After the loop: pop rooms_to_clear, persist if changed, then the rest of
\* the cycle (async_get_config may raise; the energy fetch swallows its
\* errors) and the return of the snapshot.
PollFinishData(config_err) ==
    /\ poll_pc = "reconcile"
    /\ todo = {}
    /\ overrides' = PopAll(overrides, rooms_to_clear)
    /\ IF overrides_changed /\ HasSaveHook
       THEN /\ save_calls' = save_calls + 1
            /\ persisted' = PopAll(overrides, rooms_to_clear)
       ELSE UNCHANGED <<save_calls, persisted>>
    /\ IF config_err = "none"
       THEN /\ cycle_result' = "returned"
            /\ UNCHANGED raised_by
       ELSE /\ cycle_result' = "raised"
            /\ raised_by' = "get_config"
    /\ poll_pc' = "done"
    /\ UNCHANGED <<wall, options, polls, data_by_room, now_ts, indefinite_mode,
                   overrides_changed, rooms_to_clear, todo, inflight, setstate_calls,
                   cycle_start, reapply_ok, reapply_failed, prev_failed>>

PollFinish(config_err) == PollFinishData(config_err) /\ UNCHANGED <<apiVars, homeVars>>

\* The coordinator waits for its update interval and polls again.
NextIntervalData(d) ==
    /\ poll_pc = "done"
    /\ polls < MaxPolls
    /\ wall' = wall + d
    /\ poll_pc' = "idle"
    /\ UNCHANGED <<overrides, options, polls, data_by_room, now_ts, indefinite_mode,
                   overrides_changed, rooms_to_clear, todo, inflight, setstate_calls,
                   save_calls, cycle_result, raised_by, cycle_start,
                   reapply_ok, reapply_failed, prev_failed, persisted>>

NextInterval(d) == NextIntervalData(d) /\ UNCHANGED <<apiVars, homeVars>>

(***************************************************************************)
(* IntuisConnectClimate: the user actions                                  *)
(***************************************************************************)
Actions == {"set_temperature", "set_hvac_mode", "set_preset_mode"}

\* kwargs.get("temperature"): None or a temperature
Temperatures == {NoTemp, 235}

\* _attr_hvac_modes and _attr_preset_modes
HvacModes == {"off", "auto", "heat"}
PresetModes == {"schedule", "away", "boost", "frost_protect"}

ArgsOf(kind) ==
    IF kind = "set_temperature" THEN Temperatures
    ELSE IF kind = "set_hvac_mode" THEN HvacModes
    ELSE PresetModes

\* The options of the config entry a user action reads with _get_option:
\* the manual duration at its default or at 5 minutes, and the frost-protect
\* keys set (7.0 degrees for 12 hours).
UserOptionSets ==
    { [DefaultOptions EXCEPT !.manual_duration = md]
        @@ [frost_protect_temp |-> 70, frost_protect_duration |-> 720] :
      md \in {DEFAULT_MANUAL_DURATION, 5} }

\* the snapshot's target temperature of each room: none (0.0 or None) or 21.5
RoomTargets == { [r \in Rooms |-> IF r = "r1" THEN 0 ELSE 215] }

\* the branches that pop the room's override: hvac OFF, hvac AUTO, preset schedule
Cancels(kind, arg) ==
    \/ kind = "set_hvac_mode" /\ arg \in {"off", "auto"}
    \/ kind = "set_preset_mode" /\ arg = "schedule"

\* the API mode the action sends, and stores
ApiMode(kind, arg) ==
    IF kind = "set_hvac_mode" /\ arg = "off" THEN "off"
    ELSE IF Cancels(kind, arg) THEN "home"
    ELSE IF kind = "set_preset_mode" /\ arg = "frost_protect" THEN "hg"
    ELSE IF kind = "set_preset_mode" THEN arg
    ELSE "manual"

\* the temperature the action sends, and stores: float(temp),
\* float(self.target_temperature or 20.0), or the preset's option
ActionTemp(kind, arg, r, opts) ==
    IF Cancels(kind, arg) THEN NoTemp
    ELSE IF kind = "set_temperature" THEN arg
    ELSE IF kind = "set_hvac_mode" THEN (IF room_target[r] = 0 THEN 200 ELSE room_target[r])
    ELSE IF arg = "away" THEN opts.away_temp
    ELSE IF arg = "boost" THEN opts.boost_temp
    ELSE opts.frost_protect_temp

\* the duration the action sends, in minutes (0: the argument is left out)
ActionDuration(kind, arg, opts) ==
    IF Cancels(kind, arg) THEN 0
    ELSE IF kind = "set_preset_mode" /\ arg = "away" THEN opts.away_duration
    ELSE IF kind = "set_preset_mode" /\ arg = "boost" THEN opts.boost_duration
    ELSE IF kind = "set_preset_mode" THEN opts.frost_protect_duration
    ELSE opts.manual_duration

\* an action that writes the override map before the executor has answered
WritesWhateverTheOutcome(outcome) == TRUE

\* the override map is written by the statements after
\* `await self._api.async_set_room_state(...)`, which a raise skips
WritesAfterCall(outcome) == outcome = "ok"

\* a cancel that leaves the room's entry where it is
AfterActionKeeps(kind, arg, r, ovs, entry) ==
    IF Cancels(kind, arg) THEN ovs
    ELSE [x \in DOMAIN ovs \cup {r} |-> IF x = r THEN entry ELSE ovs[x]]

\* overrides.pop(room_id, None), or overrides[room_id] = {...}
AfterAction(kind, arg, r, ovs, entry) ==
    IF Cancels(kind, arg) THEN PopAll(ovs, {r})
    ELSE [x \in DOMAIN ovs \cup {r} |-> IF x = r THEN entry ELSE ovs[x]]

\* an action that persists whatever it did
OverridesChangedAlways(kind, arg, r, ovs) == TRUE

\* overrides_changed at the end of set_hvac_mode and set_preset_mode;
\* set_temperature saves without asking
OverridesChanged(kind, arg, r, ovs) ==
    IF Cancels(kind, arg) THEN r \in DOMAIN ovs ELSE TRUE

\* the _attr_ fields an action that got through leaves behind
AttrAfter(kind, arg, old) ==
    IF kind = "set_temperature"
    THEN [hvac_mode |-> "heat", preset_mode |-> "none", target_temperature |-> arg]
    ELSE IF kind = "set_hvac_mode"
    THEN [old EXCEPT !.hvac_mode = arg,
                     !.preset_mode = IF arg = "auto" THEN "schedule" ELSE "none"]
    ELSE [old EXCEPT !.hvac_mode = IF arg = "boost" THEN "heat" ELSE "auto",
                     !.preset_mode = arg]

\* the executor takes this long to answer, seconds
ExecSeconds == 2

\* async_set_temperature(temperature=None): "return" before anything is done
SetTemperatureNone(r) ==
    /\ acts < MaxActions
    /\ acts' = acts + 1
    /\ act' = "set_temperature"
    /\ act_arg' = NoTemp
    /\ act_room' = r
    /\ act_result' = "returned"
    /\ act_calls' = <<>>
    /\ act_outcome' = "none"
    /\ act_saves' = 0
    /\ act_before' = overrides
    /\ act_refresh' = FALSE
    /\ UNCHANGED <<pollVars, apiVars, attr, room_target, wire, dayVars, telemetryVars>>

\* One of async_set_temperature, async_set_hvac_mode, async_set_preset_mode
\* on the entity of room r, whose executor call ends as `outcome` (ok, or the
\* error kind it raises).
UserAction(kind, arg, r, outcome) ==
    LET call == [room |-> r, mode |-> ApiMode(kind, arg),
                 temp |-> ActionTemp(kind, arg, r, options),
                 duration |-> ActionDuration(kind, arg, options)]
        at == wall + ExecSeconds
        entry == NewOverride(call.mode, call.temp, at, call.duration)
        after == IF WritesAfterCall(outcome)
                 THEN AfterAction(kind, arg, r, overrides, entry)
                 ELSE overrides
        saved == /\ WritesAfterCall(outcome)
                 /\ OverridesChanged(kind, arg, r, overrides)
                 /\ HasSaveHook
    IN  /\ acts < MaxActions
        /\ ~(kind = "set_temperature" /\ arg = NoTemp)
        /\ acts' = acts + 1
        /\ act' = kind
        /\ act_arg' = arg
        /\ act_room' = r
        /\ act_calls' = <<call>>
        /\ act_outcome' = outcome
        /\ act_before' = overrides
        /\ wall' = at
        /\ overrides' = after
        /\ act_saves' = IF saved THEN 1 ELSE 0
        /\ persisted' = IF saved THEN after ELSE persisted
        /\ IF outcome = "ok"
           THEN /\ act_result' = "returned"
                /\ attr' = [attr EXCEPT ![r] = AttrAfter(kind, arg, attr[r])]
                /\ act_refresh' = TRUE
           ELSE /\ act_result' = outcome
                /\ act_refresh' = FALSE
                /\ UNCHANGED attr
        /\ UNCHANGED <<options, poll_pc, polls, data_by_room, now_ts, indefinite_mode,
                       overrides_changed, rooms_to_clear, todo, inflight, setstate_calls,
                       save_calls, cycle_result, raised_by, cycle_start,
                       reapply_ok, reapply_failed, prev_failed, apiVars, room_target,
                       wire, dayVars, telemetryVars>>

ClimateNext ==
    \/ \E r \in Rooms : SetTemperatureNone(r)
    \/ \E kind \in Actions, r \in Rooms, outcome \in {"ok"} \cup ErrorKinds :
          \E arg \in ArgsOf(kind) : UserAction(kind, arg, r, outcome)

\* the entities as constructed: no _attr_ value set, nothing called yet
EntityInit ==
    /\ attr = [r \in Rooms |->
                 [hvac_mode |-> "none", preset_mode |-> "none", target_temperature |-> NoTemp]]
    /\ acts = 0
    /\ act = "none"
    /\ act_arg = "none"
    /\ act_room = "none"
    /\ act_result = "none"
    /\ act_calls = <<>>
    /\ act_outcome = "none"
    /\ act_saves = 0
    /\ act_before = <<>>
    /\ act_refresh = FALSE
    /\ wire = <<>>

EntityIdle ==
    /\ EntityInit
    /\ room_target = [r \in Rooms |-> 0]

(***************************************************************************)
(* Dates and IntuisData._get_logical_day                                   *)
(***************************************************************************)
\* A datetime is [date |-> the date's proleptic Gregorian ordinal
\* (date.toordinal()), second |-> the second of the day].
DateTime(ordinal, hour, minute) ==
    [date |-> ordinal, second |-> hour * 3600 + minute * 60]

\* now.hour
Hour(now) == now.second \div 3600

\* date.isoformat(): the year, month and day of an ordinal, as <<y, m, d>>
IsoFormat(ordinal) ==
    LET z == ordinal + 305
        era == z \div 146097
        doe == z - era * 146097
        yoe == (doe - doe \div 1460 + doe \div 36524 - doe \div 146096) \div 365
        doy == doe - (365 * yoe + yoe \div 4 - yoe \div 100)
        mp == (5 * doy + 2) \div 153
        d == doy - (153 * mp + 2) \div 5 + 1
        m == IF mp < 10 THEN mp + 3 ELSE mp - 9
        y == yoe + era * 400 + (IF m <= 2 THEN 1 ELSE 0)
    IN  <<y, m, d>>

\* a logical day that still counts the reset hour itself to the day before
LogicalDayInclusive(now, reset_hour) ==
    IF Hour(now) <= reset_hour THEN IsoFormat(now.date - 1) ELSE IsoFormat(now.date)

\* if now.hour < reset_hour: (now - timedelta(days=1)).date()
\* else: now.date(); then .isoformat()
LogicalDay(now, reset_hour) ==
    IF Hour(now) < reset_hour THEN IsoFormat(now.date - 1) ELSE IsoFormat(now.date)

\* 2024-01-15, 2024-01-01, 2024-03-01 and 2023-03-01
SampleDates == {738900, 738886, 738946, 738580}

GetLogicalDay ==
    /\ ld_calls = 0
    /\ ld_calls' = 1
    /\ ld_result' = LogicalDay(ld_now, ld_reset_hour)
    /\ UNCHANGED <<pollVars, apiVars, entityVars, telemetryVars, ld_now, ld_reset_hour>>

DayIdle ==
    /\ ld_now = DateTime(738900, 0, 0)
    /\ ld_reset_hour = DEFAULT_ENERGY_RESET_HOUR
    /\ ld_result = <<>>
    /\ ld_calls = 0

(***************************************************************************)
(* IntuisData.async_update: the logical day, the heating minutes counter   *)
(* of the mapper and the energy fetch, for an integration with no override *)
(***************************************************************************)
Min(a, b) == IF a <= b THEN a ELSE b

\* What a registered callback does when it is invoked: it returns, or it
\* raises.  KeyError stands for every exception that is none of the three
\* the except clauses name.
HookErrors == {"TypeError", "ValueError", "RuntimeError", "KeyError"}

HookBehaviours == {"returns"} \cup HookErrors

\* except (TypeError, ValueError, RuntimeError) around the callback
HookCaught == {"TypeError", "ValueError", "RuntimeError"}

\* The exception that leaves a caller which invokes hook `h` under that
\* except clause ("none": the caller goes on).
HookEscapes(h) == IF h \in HookErrors \ HookCaught THEN h ELSE "none"

\* self._last_update_timestamp = None
NoDateTime == [date |-> 0, second |-> 0]

\* a datetime `s` seconds after `now` (before it, if s is negative)
Plus(now, s) ==
    [date |-> now.date + (now.second + s) \div 86400,
     second |-> (now.second + s) % 86400]

\* (a - b).total_seconds()
SecondsBetween(a, b) == (a.date - b.date) * 86400 + (a.second - b.second)

\* datetime.now(home_tz)
NowLocal == Plus(upd_now, tz_offset * 3600)

\* ENERGY_SCALE_OPTIONS: the daily scale and a real-time one
EnergyScales == {"1day", "5min"}

\* is_realtime = scale != "1day"
IsRealtime(opts) == opts.energy_scale # "1day"

\* min(delta, DEFAULT_UPDATE_INTERVAL * 1.5), in seconds
DeltaCap == (DEFAULT_UPDATE_INTERVAL * 60 * 3) \div 2

\* a mapper that adds the whole time since the last poll
HeatingDeltaUncapped(heating, now, last) ==
    IF heating /\ last # NoDateTime /\ SecondsBetween(now, last) > 0
    THEN SecondsBetween(now, last)
    ELSE 0

\* What extract_rooms adds to a room's counter: nothing unless the room is
\* heating, a previous poll's timestamp exists and the capped delta is > 0.
HeatingDelta(heating, now, last) ==
    IF heating /\ last # NoDateTime /\ Min(SecondsBetween(now, last), DeltaCap) > 0
    THEN Min(SecondsBetween(now, last), DeltaCap)
    ELSE 0

\* a day check that only clears the minutes
ClearedOnlyMinutes(is_new) == IF is_new THEN {"minutes"} ELSE {}

\* if is_new_logical_day: self._minutes_counter.clear(); self._energy_cache.clear()
ClearedOnNewDay(is_new) == IF is_new THEN {"minutes", "energy"} ELSE {}

\* self._last_logical_day is not None and self._last_logical_day != current_logical_day
IsNewLogicalDay(last, current) == last # <<>> /\ last # current

EmptyCache == [date |-> <<>>, wh |-> <<>>]

\* The first lines of async_update, up to `self._last_logical_day = ...`:
\* the counters and the cache after the day check.
DayCheck ==
    LET current == LogicalDay(upd_now, options.energy_reset_hour)
        cleared == ClearedOnNewDay(IsNewLogicalDay(last_logical_day, current))
    IN  /\ upd_pc = "idle"
        /\ upd_prev_day' = last_logical_day
        /\ minutes_before' = minutes_counter
        /\ upd_cleared' = cleared
        /\ last_logical_day' = current
        /\ energy_cache' = IF "energy" \in cleared THEN EmptyCache ELSE energy_cache
        /\ cache_before' = energy_cache
        /\ cache_read' = FALSE
        /\ energy' = <<>>
        /\ energy_requests' = <<>>
        /\ energy_outcome' = <<>>
        /\ success_calls' = 0

\* a failed home status that still stamps the cycle
UpdHomeStatusFailsStamped(err) ==
    /\ DayCheck
    /\ minutes_counter' = IF "minutes" \in upd_cleared' THEN <<>> ELSE minutes_counter
    /\ upd_pc' = "done"
    /\ upd_result' = err
    /\ upd_raised_by' = "home_status"
    /\ upd_snapshot' = <<>>
    /\ last_update_timestamp' = upd_now
    /\ UNCHANGED <<upd_now, tz_offset, bridged, success_callback, upd_polls>>

\* The day check, then async_get_home_status raises: logged and re-raised.
UpdHomeStatusFailsData(err) ==
    /\ DayCheck
    /\ minutes_counter' = IF "minutes" \in upd_cleared' THEN <<>> ELSE minutes_counter
    /\ upd_pc' = "done"
    /\ upd_result' = err
    /\ upd_raised_by' = "home_status"
    /\ upd_snapshot' = <<>>
    /\ UNCHANGED <<upd_now, tz_offset, bridged,
                   success_callback, last_update_timestamp, upd_polls>>

UpdHomeStatusFails(err) ==
    UpdHomeStatusFailsData(err) /\ UNCHANGED <<pollVars, apiVars, entityVars, dayVars>>

\* The day check, the home status, then extract_rooms over the rooms of the
\* answer: each room's counter is created if missing and advanced if heating.
UpdMapsRoomsData(snapshot) ==
    LET kept == IF "minutes" \in upd_cleared' THEN <<>> ELSE minutes_counter
    IN  /\ DayCheck
        /\ minutes_counter' =
              [r \in DOMAIN kept \cup DOMAIN snapshot |->
                 IF r \in DOMAIN snapshot
                 THEN (IF r \in DOMAIN kept THEN kept[r] ELSE 0)
                      + HeatingDelta(snapshot[r], upd_now, last_update_timestamp)
                 ELSE kept[r]]
        /\ upd_pc' = "mapped"
        /\ upd_result' = "none"
        /\ upd_raised_by' = "none"
        /\ upd_snapshot' = snapshot
        /\ UNCHANGED <<upd_now, tz_offset, bridged,
                       success_callback, last_update_timestamp, upd_polls>>

UpdMapsRooms(snapshot) ==
    UpdMapsRoomsData(snapshot) /\ UNCHANGED <<pollVars, apiVars, entityVars, dayVars>>

\* No override to reconcile; async_get_config raises.
UpdConfigFailsData(err) ==
    /\ upd_pc = "mapped"
    /\ upd_pc' = "done"
    /\ upd_result' = err
    /\ upd_raised_by' = "get_config"
    /\ UNCHANGED <<upd_now, tz_offset, bridged,
                   success_callback, last_logical_day, last_update_timestamp,
                   minutes_counter, energy_cache, upd_polls, upd_snapshot, upd_prev_day,
                   upd_cleared, minutes_before, cache_before, cache_read, energy,
                   energy_requests, energy_outcome, success_calls>>

UpdConfigFails(err) ==
    UpdConfigFailsData(err) /\ UNCHANGED <<pollVars, apiVars, entityVars, dayVars>>

\* data_by_room.items() keeps the order of the rooms in the answer
RoomOrder == <<"r1", "r2">>

InOrder(rs) == SelectSeq(RoomOrder, LAMBDA r : r \in rs)

\* How one room's energy request may end: answered, or one of the errors of
\* the executor.
EnergyOutcomes == {"ok", "RateLimitError", "CannotConnect", "APIError", "InvalidAuth"}

\* an energy fetch that lets a rate limit through
EnergyCaughtButRateLimit == {"APIError", "CannotConnect", "ClientError"}

\* _async_get_room_energy returns 0.0 on APIError; async_get_energy_measures
\* sets 0.0 on (APIError, CannotConnect, RateLimitError, aiohttp.ClientError,
\* asyncio.TimeoutError)
EnergyCaught == {"APIError", "CannotConnect", "RateLimitError", "ClientError"}

\* the Wh the API reports for a room on the n-th poll
MeasuredWh(r, n) == 1000 * n + (IF r = "r1" THEN 0 ELSE 500)

\* the rooms async_get_energy_measures asks for, given how each request
\* ends: all of rooms_for_api up to the first error that is not caught
Requested(rooms, outcomes) ==
    LET all == InOrder(rooms)
        stops == {i \in 1..Len(all) : outcomes[all[i]] \notin {"ok"} \cup EnergyCaught}
    IN  IF stops = {} THEN all
        ELSE SubSeq(all, 1, CHOOSE i \in stops : \A j \in stops : i <= j)

\* before the reset hour the daily scale serves what is cached
BeforeResetNever(opts, local) == FALSE

\* if not is_realtime and now_local.hour < reset_hour: return
BeforeReset(opts, local) == ~IsRealtime(opts) /\ Hour(local) < opts.energy_reset_hour

\* if not is_realtime and self._energy_cache.get("_date") == today_iso
CacheHit(opts, cache, local) == ~IsRealtime(opts) /\ cache.date = IsoFormat(local.date)

\* async_get_config answered; _fetch_energy_data; the timestamp; the success
\* callback; the return of the snapshot.
UpdFinishesData(outcomes) ==
    LET rooms == DOMAIN upd_snapshot
        rooms_for_api == rooms \cap bridged
        skip == BeforeReset(options, NowLocal)
        hit == ~skip /\ CacheHit(options, energy_cache, NowLocal)
        fetch == ~skip /\ ~hit /\ rooms_for_api # {}
        asked == IF fetch THEN Requested(rooms_for_api, outcomes) ELSE <<>>
        asked_set == {asked[i] : i \in 1..Len(asked)}
        escaped == {outcomes[r] : r \in asked_set} \ ({"ok"} \cup EnergyCaught)
        fetched == fetch /\ escaped = {}
        energy_data == [r \in rooms_for_api |->
                          IF outcomes[r] = "ok" THEN MeasuredWh(r, upd_polls + 1) ELSE 0]
        assigned == [r \in rooms |-> IF r \in rooms_for_api THEN energy_data[r] ELSE 0]
        hook == IF success_callback = "unset" THEN "none" ELSE HookEscapes(success_callback)
    IN  /\ upd_pc = "mapped"
        /\ \A r \in Rooms \ asked_set : outcomes[r] = "ok"
        /\ upd_pc' = "done"
        /\ cache_read' = hit
        /\ energy_requests' = asked
        /\ energy_outcome' = [r \in asked_set |-> outcomes[r]]
        /\ energy' = IF hit
                     THEN [r \in rooms |-> IF r \in DOMAIN energy_cache.wh
                                           THEN energy_cache.wh[r] ELSE 0]
                     ELSE IF fetched THEN assigned
                     ELSE <<>>
        /\ energy_cache' = IF fetched /\ ~IsRealtime(options)
                           THEN [date |-> IsoFormat(NowLocal.date), wh |-> assigned]
                           ELSE energy_cache
        /\ IF escaped # {}
           THEN /\ upd_result' = CHOOSE e \in escaped : TRUE
                /\ upd_raised_by' = "energy"
                /\ UNCHANGED <<last_update_timestamp, success_calls>>
           ELSE /\ last_update_timestamp' = upd_now
                /\ success_calls' = IF success_callback = "unset" THEN 0 ELSE 1
                /\ upd_result' = IF hook = "none" THEN "returned" ELSE hook
                /\ upd_raised_by' = IF hook = "none" THEN "none" ELSE "success_callback"
        /\ UNCHANGED <<upd_now, tz_offset, bridged,
                       success_callback, last_logical_day, minutes_counter, upd_polls,
                       upd_snapshot, upd_prev_day, upd_cleared, minutes_before,
                       cache_before>>

UpdFinishes(outcomes) ==
    UpdFinishesData(outcomes) /\ UNCHANGED <<pollVars, apiVars, entityVars, dayVars>>

\* the gaps between two polls: the interval, a late poll, a clock set back
PollGaps == {DEFAULT_UPDATE_INTERVAL * 60, DEFAULT_MAX_UPDATE_INTERVAL * 60, -60}

\* The coordinator polls again after `gap` seconds of the system's clock;
\* what the previous poll returned or raised is gone.
UpdNextPollWithin(gap, max_polls) ==
    /\ upd_pc = "done"
    /\ upd_polls + 1 < max_polls
    /\ upd_polls' = upd_polls + 1
    /\ upd_now' = Plus(upd_now, gap)
    /\ upd_pc' = "idle"
    /\ upd_result' = "none"
    /\ upd_raised_by' = "none"
    /\ upd_snapshot' = <<>>
    /\ upd_prev_day' = <<>>
    /\ upd_cleared' = {}
    /\ minutes_before' = <<>>
    /\ cache_before' = EmptyCache
    /\ cache_read' = FALSE
    /\ energy' = <<>>
    /\ energy_requests' = <<>>
    /\ energy_outcome' = <<>>
    /\ success_calls' = 0
    /\ UNCHANGED <<tz_offset, bridged,
                   success_callback, last_logical_day, last_update_timestamp,
                   minutes_counter, energy_cache>>

UpdNextPollData(gap) == UpdNextPollWithin(gap, MaxUpdates)

UpdNextPoll(gap) ==
    UpdNextPollData(gap) /\ UNCHANGED <<pollVars, apiVars, entityVars, dayVars>>

\* the rooms of a home-status answer, each heating or not
Snapshots == UNION { [rs -> BOOLEAN] : rs \in {Rooms, {"r2"}} }

\* the errors the home status and the configuration requests end with here:
\* one the coordinator retries, one it does not
UpdateErrors == {"CannotConnect", "InvalidAuth"}

UpdateNext ==
    \/ \E err \in UpdateErrors : UpdHomeStatusFails(err)
    \/ \E snapshot \in Snapshots : UpdMapsRooms(snapshot)
    \/ \E err \in UpdateErrors : UpdConfigFails(err)
    \/ \E outcomes \in [Rooms -> EnergyOutcomes] : UpdFinishes(outcomes)
    \/ \E gap \in PollGaps : UpdNextPoll(gap)

\* IntuisData as constructed, before its first poll
TelemetryFresh ==
    /\ success_callback = "unset"
    /\ last_logical_day = <<>>
    /\ last_update_timestamp = NoDateTime
    /\ minutes_counter = <<>>
    /\ energy_cache = EmptyCache
    /\ upd_pc = "idle"
    /\ upd_polls = 0
    /\ upd_result = "none"
    /\ upd_raised_by = "none"
    /\ upd_snapshot = <<>>
    /\ upd_prev_day = <<>>
    /\ upd_cleared = {}
    /\ minutes_before = <<>>
    /\ cache_before = EmptyCache
    /\ cache_read = FALSE
    /\ energy = <<>>
    /\ energy_requests = <<>>
    /\ energy_outcome = <<>>
    /\ success_calls = 0

TelemetryIdle ==
    /\ TelemetryFresh
    /\ upd_now = DateTime(738900, 12, 0)
    /\ tz_offset = 0
    /\ bridged = Rooms

HomeInit ==
    /\ EntityIdle
    /\ DayIdle
    /\ TelemetryIdle

(***************************************************************************)
(* RateLimitCircuitBreaker                                                 *)
(***************************************************************************)
Threshold == threshold

\* a cooldown with no maximum
CooldownUncapped(n) == Sec(BASE_COOLDOWN) * 2 ^ (n - Threshold)

\* cooldown = min(base_cooldown * 2 ** (consecutive_429s - threshold), max_cooldown)
Cooldown(n) == Min(Sec(BASE_COOLDOWN) * 2 ^ (n - Threshold), Sec(MAX_COOLDOWN))

\* record_429, on a counter n and at time t: the new counter, the new
\* circuit_open_until
CountAfter429(n) == n + 1

OpenUntilAfter429(n, open_until, t) ==
    IF CountAfter429(n) >= Threshold THEN t + Cooldown(CountAfter429(n)) ELSE open_until

\* a record_success that leaves the counter as it is
CountKept(n) == n

\* record_success on a counter n and a circuit_open_until
CountAfterSuccess(n) == 0

\* a record_success that leaves the circuit as it is
OpenUntilKept(open_until) == open_until

OpenUntilAfterSuccess(open_until) == NoDeadline

\* what record_429 returns: the cooldown if the circuit opened, 0 otherwise
Returned429(n) ==
    IF CountAfter429(n) >= Threshold THEN Cooldown(CountAfter429(n)) ELSE 0

\* check(): the seconds to wait, and what it leaves in circuit_open_until
CheckWait(open_until, t) ==
    IF open_until # NoDeadline /\ open_until - t > 0 THEN open_until - t ELSE 0

\* a check that never clears the deadline
CheckLeavesAsIs(open_until, t) == open_until

CheckLeaves(open_until, t) ==
    IF open_until # NoDeadline /\ ~(open_until - t > 0) THEN NoDeadline ELSE open_until

(***************************************************************************)
(* RequestThrottler.acquire, the part under the lock                       *)
(***************************************************************************)
\* a throttler that waits half of what is left of min_delay
ThrottleWaitHalf(now, last) ==
    IF now - last < MIN_REQUEST_DELAY_MS /\ last > 0
    THEN (MIN_REQUEST_DELAY_MS - (now - last)) \div 2
    ELSE 0

\* if elapsed < self._min_delay and self._last_request > 0:
\*     wait_time = self._min_delay - elapsed
ThrottleWait(now, last) ==
    IF now - last < MIN_REQUEST_DELAY_MS /\ last > 0
    THEN MIN_REQUEST_DELAY_MS - (now - last)
    ELSE 0

(***************************************************************************)
(* IntuisAPI._async_request, one caller                                    *)
(***************************************************************************)
\* self._rate_limit_delay
RateLimitDelay == Sec(rate_limit_delay)

\* Retry-After headers a 429 may carry: none, two numbers of seconds, and
\* one float() cannot parse (an HTTP date)
RetryAfterHeaders == {"absent", "0", "120", "date"}

\* float(retry_after) raises ValueError
FloatFails(h) == h \notin {"0", "120"}

\* float(retry_after), in milliseconds
FloatMs(h) == IF h = "0" THEN 0 ELSE Sec(120)

\* the delay before the retry of a 429 at `attempt`
RateLimitSleep(attempt, h) ==
    IF h # "absent"
    THEN IF FloatFails(h) THEN RateLimitDelay
         ELSE Min(FloatMs(h), Sec(DEFAULT_RATE_LIMIT_MAX_DELAY))
    ELSE Min(RateLimitDelay * 2 ^ (attempt - 1), Sec(DEFAULT_RATE_LIMIT_MAX_DELAY))

\* statuses the server answers with
Statuses == {200, 401, 404, 429, 500}

Responses ==
    { [status |-> st, retry_after |-> "absent"] : st \in Statuses }
    \cup { [status |-> 429, retry_after |-> h] : h \in RetryAfterHeaders }

\* what the token endpoint grants: _save_tokens stores the refresh token of
\* the response (None when it has none) and loop.time() + expires_in
TokenGrants ==
    { [has_refresh |-> TRUE, expires_in |-> DEFAULT_EXPIRES_IN],
      [has_refresh |-> FALSE, expires_in |-> DEFAULT_EXPIRES_IN],
      [has_refresh |-> TRUE, expires_in |-> 30] }

\* how async_refresh_access_token's POST ends: a 200 with a grant, another
\* status (InvalidAuth), or a transport failure (the aiohttp error, raw)
RefreshOutcomes ==
    { [kind |-> "ok", grant |-> g] : g \in TokenGrants }
    \cup { [kind |-> k, grant |-> CHOOSE g \in TokenGrants : TRUE] : k \in {"rejected", "neterr"} }

NoRefresh == [kind |-> "ok", grant |-> CHOOSE g \in TokenGrants : TRUE]

\* the activation of _async_request that is running
Top == frames[Len(frames)]

\* The arguments of a call of _async_request: path, full_url and, in
\* **kwargs, headers, timeout (seconds) and the body (data= or json=);
\* "none" and 0 stand for an argument that is not given.
HomeStatusCall ==
    [path |-> "/homestatus", full_url |-> "none", headers |-> "none", timeout |-> 0,
     body |-> "data"]

\* async_set_room_state: json=payload, headers={"Content-Type": "application/json"}
SetStateCall ==
    [path |-> "/setstate", full_url |-> "none", headers |-> "Content-Type", timeout |-> 0,
     body |-> "json"]

\* async_get_schedule: full_url=url, timeout=10
GetScheduleCall ==
    [path |-> "/getschedule", full_url |-> "energy/getschedule?home_id&schedule_id",
     headers |-> "none", timeout |-> 10, body |-> "none"]

CallShapes == {HomeStatusCall, SetStateCall, GetScheduleCall}

\* self._async_request(method, path, retry=False, **kwargs) in the 401
\* branch: full_url is not passed on, and headers and timeout were popped
\* from kwargs before the loop
Reentered(args) == [args EXCEPT !.full_url = "none", !.headers = "none", !.timeout = 0]

\* self._session.request(method, url, headers=headers, timeout=timeout,
\* **kwargs) of an activation called with `args`, the Authorization header
\* aside: url = full_url if full_url else base_url + path,
\* kwargs.pop("headers", {}), kwargs.pop("timeout", 20)
Outgoing(args) ==
    [url |-> IF args.full_url # "none" THEN args.full_url ELSE args.path,
     headers |-> args.headers,
     timeout |-> IF args.timeout = 0 THEN 20 ELSE args.timeout,
     body |-> args.body]

NewFrame(retry, args) ==
    [retry |-> retry, attempt |-> 1, server_delay |-> SERVER_DELAY_MS, headers |-> NoToken,
     args |-> args]

\* _save_tokens at time t
SaveTokens(g, t) ==
    /\ access_token' = access_token + 1
    /\ refresh_token' = g.has_refresh
    /\ expiry' = t + Sec(g.expires_in)

\* the call goes on at `pc`, at time t, with activations fs
Goes(pc, t, fs) ==
    /\ ex_pc' = pc
    /\ clock' = t
    /\ frames' = fs
    /\ UNCHANGED result

\* the call ends at time t: a response returned ("ok") or an error raised
Ends(res, t) ==
    /\ ex_pc' = "done"
    /\ clock' = t
    /\ frames' = <<>>
    /\ result' = res
    /\ last_sleep' = 0

\* a rate-limit budget that allows one retry more
RateLimitBudgetLeftInclusive(attempt) == attempt <= DEFAULT_RATE_LIMIT_ATTEMPTS

\* if attempt < rate_limit_attempts
RateLimitBudgetLeft(attempt) == attempt < DEFAULT_RATE_LIMIT_ATTEMPTS

\* a server budget that gives up one attempt early
ServerBudgetLeftShort(attempt) == attempt < SERVER_ATTEMPTS - 1

\* if attempt < server_attempts, for a 5xx response
ServerBudgetLeft(attempt) == attempt < SERVER_ATTEMPTS

\* a network budget that never runs out
NetworkBudgetLeftAlways(attempt) == attempt <= SERVER_ATTEMPTS

\* if attempt < server_attempts, for a transport failure or a timeout
NetworkBudgetLeft(attempt) == attempt < SERVER_ATTEMPTS

\* await asyncio.sleep(delay); continue: the next pass of the loop starts
\* `delay` after time t, with activations fs
Retries(delay, t, fs) ==
    /\ Goes("send", t + delay, fs)
    /\ last_sleep' = delay

\* a try with no except clause for the HTTP error
RaisedRaw(err) == err

\* what the caller gets of an error raised inside the loop's try:
\* except aiohttp.ClientResponseError turns resp.raise_for_status()'s error
\* into APIError
RaisedInTry(err) == IF err = "ClientResponseError" THEN "APIError" ELSE err

\* except (aiohttp.ClientError, asyncio.TimeoutError) in the activation on
\* top of fs, at time t
NetworkFailure(fs, t) ==
    LET fr == fs[Len(fs)]
    IN  IF NetworkBudgetLeft(fr.attempt)
        THEN Retries(fr.server_delay, t,
                     [fs EXCEPT ![Len(fs)] = [fr EXCEPT !.attempt = @ + 1,
                                                        !.server_delay = @ * 2]])
        ELSE Ends("CannotConnect", t)

\* async_login, as far as the token state goes: _save_tokens
Login(g) ==
    /\ ex_pc = "idle"
    /\ access_token = NoToken
    /\ SaveTokens(g, clock + Latency)
    /\ clock' = clock + Latency
    /\ UNCHANGED <<pollVars, homeVars, configVars, backoffVars, driverVars, callerVars, breakerVars, throttleVars, execVars>>

\* a caller enters _async_request(method, path, full_url=..., **kwargs)
StartCall(args) ==
    /\ ex_pc \in {"idle", "done"}
    /\ calls < MaxCalls
    /\ calls' = calls + 1
    /\ ex_pc' = "check"
    /\ frames' = <<NewFrame(TRUE, args)>>
    /\ result' = "none"
    /\ n_sent' = 0
    /\ n_refresh' = 0
    /\ last_attempt' = 0
    /\ last_sleep' = 0
    /\ n_429' = 0
    /\ n_fail' = 0
    /\ n_401' = 0
    /\ start_429s' = consecutive_429s
    /\ UNCHANGED <<pollVars, homeVars, configVars, backoffVars, driverVars, callerVars, clock, breakerVars, throttleVars, tokenVars,
                   reqs, last_sent, last_gap, sent_wait, last_status>>

\* wait_time = self._circuit_breaker.check(); if wait_time > 0: sleep
CheckCircuit ==
    /\ ex_pc = "check"
    /\ circuit_open_until' = CheckLeaves(circuit_open_until, clock)
    /\ clock' = clock + CheckWait(circuit_open_until, clock)
    /\ ex_pc' = "throttle"
    /\ UNCHANGED <<pollVars, homeVars, configVars, backoffVars, driverVars, callerVars, consecutive_429s, throttleVars, tokenVars, frames, calls,
                   result, reqs, n_sent, n_refresh, last_sent, last_gap, sent_wait,
                   last_status, callObs>>

\* await self._throttler.acquire(), with nobody else at the lock
ThrottleAcquire ==
    /\ ex_pc = "throttle"
    /\ lock_holder = NoCaller
    /\ clock' = clock + ThrottleWait(clock, last_request)
    /\ last_request' = clock + ThrottleWait(clock, last_request)
    /\ ex_pc' = "ensure"
    /\ UNCHANGED <<pollVars, homeVars, configVars, backoffVars, driverVars, callerVars, breakerVars, lock_holder, tokenVars, frames, calls,
                   result, reqs, n_sent, n_refresh, last_sent, last_gap, sent_wait,
                   last_status, callObs>>

\* an _ensure_token that takes any token state for a token
TokenMissingNever(tok) == FALSE

\* if self._access_token is None
TokenMissing(tok) == tok = NoToken

\* await self._ensure_token(), then the headers and the loop's counters
EnsureToken(ro) ==
    /\ ex_pc = "ensure"
    /\ IF TokenMissing(access_token)
       THEN /\ ro = NoRefresh
            /\ Ends("InvalidAuth", clock)
            /\ UNCHANGED tokenVars
       ELSE IF expiry # NoDeadline /\ clock > expiry - Sec(EXPIRY_MARGIN)
       THEN IF ~refresh_token
            THEN /\ ro = NoRefresh
                 /\ Ends("InvalidAuth", clock)
                 /\ UNCHANGED tokenVars
            ELSE IF ro.kind = "ok"
            THEN /\ SaveTokens(ro.grant, clock + Latency)
                 /\ last_sleep' = 0
                 /\ Goes("send", clock + Latency,
                         [frames EXCEPT ![Len(frames)] =
                             [NewFrame(Top.retry, Top.args) EXCEPT !.headers = access_token + 1]])
            ELSE IF ro.kind = "rejected"
            THEN /\ Ends("InvalidAuth", clock + Latency)
                 /\ UNCHANGED tokenVars
            ELSE \* the raw aiohttp error leaves this activation; the one
                 \* that re-entered after a 401 awaits it inside its try
                 /\ IF Len(frames) = 2
                    THEN NetworkFailure(SubSeq(frames, 1, 1), clock + Latency)
                    ELSE Ends("ClientError", clock + Latency)
                 /\ UNCHANGED tokenVars
       ELSE /\ ro = NoRefresh
            /\ last_sleep' = 0
            /\ Goes("send", clock,
                    [frames EXCEPT ![Len(frames)] =
                        [NewFrame(Top.retry, Top.args) EXCEPT !.headers = access_token]])
            /\ UNCHANGED tokenVars
    /\ UNCHANGED <<pollVars, homeVars, configVars, backoffVars, driverVars, callerVars, breakerVars, throttleVars, calls, reqs,
                   n_sent, n_refresh, last_sent, last_gap, sent_wait, last_status,
                   last_attempt, n_429, n_fail, n_401, start_429s>>

\* what every request sent at the current time records
Sends(status) ==
    /\ reqs' = reqs + 1
    /\ n_sent' = n_sent + 1
    /\ last_sent' = clock
    /\ last_gap' = IF reqs > 0 THEN clock - last_sent ELSE 0
    /\ sent_wait' = CheckWait(circuit_open_until, clock)
    /\ last_status' = status
    /\ last_attempt' = Top.attempt
    /\ n_429' = n_429 + (IF status = 429 THEN 1 ELSE 0)
    /\ n_fail' = n_fail + (IF status = 0 \/ (500 <= status /\ status < 600) THEN 1 ELSE 0)
    /\ n_401' = n_401 + (IF status = 401 THEN 1 ELSE 0)
    /\ UNCHANGED start_429s

\* One pass of the retry loop: the request is sent, the response `resp`
\* comes back and is classified (`ro`: how the refresh after a 401 ends).
Request(resp, ro) ==
    /\ ex_pc = "send"
    /\ reqs < MaxRequests
    /\ Sends(resp.status)
    /\ LET t == clock + Latency
           fr == Top
       IN  IF resp.status = 401 /\ fr.retry
           THEN \* refresh the token, then re-enter with retry=False
                /\ UNCHANGED breakerVars
                /\ IF ~refresh_token
                   THEN /\ ro = NoRefresh
                        /\ Ends("InvalidAuth", t)
                        /\ UNCHANGED <<tokenVars, n_refresh>>
                   ELSE IF ro.kind = "ok"
                   THEN /\ SaveTokens(ro.grant, t + Latency)
                        /\ n_refresh' = n_refresh + 1
                        /\ last_sleep' = 0
                        /\ Goes("check", t + Latency, Append(frames, NewFrame(FALSE, Reentered(fr.args))))
                   ELSE IF ro.kind = "rejected"
                   THEN /\ Ends("InvalidAuth", t + Latency)
                        /\ UNCHANGED <<tokenVars, n_refresh>>
                   ELSE /\ NetworkFailure(frames, t + Latency)
                        /\ UNCHANGED <<tokenVars, n_refresh>>
           ELSE /\ ro = NoRefresh
                /\ UNCHANGED <<tokenVars, n_refresh>>
                /\ IF resp.status = 429
                   THEN /\ consecutive_429s' = CountAfter429(consecutive_429s)
                        /\ circuit_open_until' =
                               OpenUntilAfter429(consecutive_429s, circuit_open_until, t)
                        /\ IF RateLimitBudgetLeft(fr.attempt)
                           THEN Retries(RateLimitSleep(fr.attempt, resp.retry_after), t,
                                        [frames EXCEPT ![Len(frames)].attempt = @ + 1])
                           ELSE Ends("RateLimitError", t)
                   ELSE IF 500 <= resp.status /\ resp.status < 600
                   THEN /\ UNCHANGED breakerVars
                        /\ IF ServerBudgetLeft(fr.attempt)
                           THEN Retries(fr.server_delay, t,
                                        [frames EXCEPT ![Len(frames)] =
                                            [fr EXCEPT !.attempt = @ + 1,
                                                       !.server_delay = @ * 2]])
                           ELSE \* resp.raise_for_status()
                                Ends(RaisedInTry("ClientResponseError"), t)
                   ELSE IF resp.status >= 400
                   THEN \* resp.raise_for_status()
                        /\ UNCHANGED breakerVars
                        /\ Ends(RaisedInTry("ClientResponseError"), t)
                   ELSE \* self._circuit_breaker.record_success()
                        /\ consecutive_429s' = CountAfterSuccess(consecutive_429s)
                        /\ circuit_open_until' = OpenUntilAfterSuccess(circuit_open_until)
                        /\ Ends("ok", t)
    /\ UNCHANGED <<pollVars, homeVars, configVars, backoffVars, driverVars, callerVars, throttleVars, calls>>

\* One pass of the retry loop whose request fails in transport or times out.
RequestFails ==
    /\ ex_pc = "send"
    /\ reqs < MaxRequests
    /\ Sends(0)
    /\ NetworkFailure(frames, clock + Latency)
    /\ UNCHANGED <<pollVars, homeVars, configVars, backoffVars, driverVars, callerVars, breakerVars, throttleVars, tokenVars, calls, n_refresh>>

ExecNext ==
    \/ \E g \in TokenGrants : Login(g)
    \/ StartCall(HomeStatusCall)
    \/ CheckCircuit
    \/ ThrottleAcquire
    \/ \E ro \in RefreshOutcomes : EnsureToken(ro)
    \/ \E resp \in Responses, ro \in RefreshOutcomes : Request(resp, ro)
    \/ RequestFails

(***************************************************************************)
(* RequestThrottler.acquire, concurrent callers                            *)
(***************************************************************************)
Callers == 1..NumCallers

\* acquire returns to caller c at the current time
Returns(c, pcs) ==
    /\ th_pc' = [pcs EXCEPT ![c] = "idle"]
    /\ last_request' = clock
    /\ th_returns' = th_returns + 1
    /\ last_return' = clock
    /\ return_gap' = IF th_returns > 0 THEN clock - last_return ELSE 0

\* caller c has the lock: now, elapsed, and the sleep if there is one; with
\* no sleep there is no await before the return
EnterSection(c, pcs) ==
    LET wait_time == ThrottleWait(clock, last_request)
    IN  /\ first_wait' = IF th_returns = 0 /\ th_slept = 0 THEN wait_time ELSE first_wait
        /\ IF wait_time > 0
           THEN /\ th_pc' = [pcs EXCEPT ![c] = "sleeping"]
                /\ lock_holder' = c
                /\ wake_at' = clock + wait_time
                /\ th_slept' = th_slept + 1
                /\ UNCHANGED <<last_request, th_returns, last_return, return_gap>>
           ELSE /\ Returns(c, pcs)
                /\ UNCHANGED <<lock_holder, wake_at, th_slept>>

\* a caller calls acquire(): async with self._lock
Acquire(c) ==
    /\ th_pc[c] = "idle"
    /\ th_calls < MaxAcquires
    /\ th_calls' = th_calls + 1
    /\ IF lock_holder = NoCaller
       THEN /\ EnterSection(c, th_pc)
            /\ UNCHANGED contended
       ELSE /\ th_pc' = [th_pc EXCEPT ![c] = "waiting"]
            /\ contended' = TRUE
            /\ UNCHANGED <<throttleVars, wake_at, th_returns, th_slept, last_return,
                           return_gap, first_wait>>
    /\ UNCHANGED <<pollVars, homeVars, configVars, backoffVars, driverVars, clock, breakerVars, tokenVars, execVars>>

\* a caller that waited for the lock gets it
LockGranted(c) ==
    /\ th_pc[c] = "waiting"
    /\ lock_holder = NoCaller
    /\ EnterSection(c, th_pc)
    /\ UNCHANGED <<pollVars, homeVars, configVars, backoffVars, driverVars, clock, breakerVars, tokenVars, execVars, th_calls, contended>>

\* the sleep is over: self._last_request = time.monotonic(), the lock is
\* released, acquire returns
Wake(c) ==
    /\ th_pc[c] = "sleeping"
    /\ clock >= wake_at
    /\ Returns(c, th_pc)
    /\ lock_holder' = NoCaller
    /\ UNCHANGED <<pollVars, homeVars, configVars, backoffVars, driverVars, clock, breakerVars, tokenVars, execVars, wake_at, th_calls,
                   th_slept, contended, first_wait>>

\* time passes
Tick ==
    /\ clock < StartClock + MaxTicks * TickMs
    /\ clock' = clock + TickMs
    /\ UNCHANGED <<pollVars, homeVars, configVars, backoffVars, driverVars, breakerVars, throttleVars, tokenVars, execVars, callerVars>>

ThrottleNext ==
    \/ \E c \in Callers : Acquire(c)
    \/ \E c \in Callers : LockGranted(c)
    \/ \E c \in Callers : Wake(c)
    \/ Tick

(***************************************************************************)
(* The 429 branch of the retry loop, for every configured delay            *)
(***************************************************************************)
\* RATE_LIMIT_DELAY_OPTIONS, seconds
RateLimitDelayOptions == {10, 30, 60, 120}

\* A 429 arrives with Retry-After header h and the budget allows a retry:
\* the delay is computed and slept, and the loop goes to the next attempt.
SleepsAfter429(h) ==
    /\ RateLimitBudgetLeft(bo_attempt)
    /\ bo_delay' = RateLimitSleep(bo_attempt, h)
    /\ bo_total' = bo_total + RateLimitSleep(bo_attempt, h)
    /\ bo_attempt' = bo_attempt + 1
    /\ UNCHANGED <<pollVars, homeVars, clock, configVars, breakerVars, throttleVars, tokenVars,
                   execVars, callerVars, driverVars>>

BackoffNext == \E h \in RetryAfterHeaders : SleepsAfter429(h)

(***************************************************************************)
(* RateLimitCircuitBreaker, its methods called in any order                *)
(***************************************************************************)
\* CIRCUIT_THRESHOLD_OPTIONS
CircuitThresholdOptions == {1, 3, 5, 10}

\* the driver's bookkeeping of one call of a method that returned `ret`
Called(op, ret) ==
    /\ brk_calls < MaxBreakerCalls
    /\ brk_calls' = brk_calls + 1
    /\ brk_op' = op
    /\ brk_ret' = ret

\* record_429: count, open the circuit at the threshold, invoke the callback
\* if one is set and the circuit opened, return the cooldown.
BrkRecord429 ==
    LET opened == CountAfter429(consecutive_429s) >= Threshold
        invoked == opened /\ on_rate_limit_callback # "unset"
        escaped == IF invoked THEN HookEscapes(on_rate_limit_callback) ELSE "none"
    IN  /\ Called("record_429",
                  IF escaped = "none" THEN Returned429(consecutive_429s) ELSE 0)
        /\ consecutive_429s' = CountAfter429(consecutive_429s)
        /\ circuit_open_until' = OpenUntilAfter429(consecutive_429s, circuit_open_until, clock)
        /\ last_cooldown' = IF escaped = "none" THEN Returned429(consecutive_429s)
                                                ELSE last_cooldown
        /\ hook_calls' = IF invoked THEN hook_calls + 1 ELSE hook_calls
        /\ brk_raised' = escaped
        /\ UNCHANGED <<pollVars, homeVars, clock, configVars, throttleVars, tokenVars, execVars,
                       callerVars, backoffVars, brk_ticks>>

BrkRecordSuccess ==
    /\ Called("record_success", 0)
    /\ consecutive_429s' = CountAfterSuccess(consecutive_429s)
    /\ circuit_open_until' = OpenUntilAfterSuccess(circuit_open_until)
    /\ last_cooldown' = 0
    /\ brk_raised' = "none"
    /\ UNCHANGED <<pollVars, homeVars, clock, configVars, throttleVars, tokenVars, execVars,
                   callerVars, backoffVars, brk_ticks, hook_calls>>

BrkCheck ==
    /\ Called("check", CheckWait(circuit_open_until, clock))
    /\ circuit_open_until' = CheckLeaves(circuit_open_until, clock)
    /\ brk_raised' = "none"
    /\ UNCHANGED <<pollVars, homeVars, clock, configVars, consecutive_429s, throttleVars, tokenVars,
                   execVars, callerVars, backoffVars, brk_ticks, last_cooldown, hook_calls>>

\* set_rate_limit_callback(callback), with a callback that behaves as `h`
SetRateLimitCallback(h) ==
    /\ on_rate_limit_callback = "unset"
    /\ brk_calls = 0
    /\ on_rate_limit_callback' = h
    /\ UNCHANGED <<pollVars, homeVars, clock, threshold, rate_limit_delay, breakerVars, throttleVars,
                   tokenVars, execVars, callerVars, backoffVars, driverVars>>

\* time passes between two calls
BrkTick ==
    /\ brk_ticks < MaxBreakerTicks
    /\ brk_ticks' = brk_ticks + 1
    /\ clock' = clock + Sec(BreakerTickSec)
    /\ brk_op' = "none"
    /\ UNCHANGED <<pollVars, homeVars, configVars, breakerVars, throttleVars, tokenVars, execVars,
                   callerVars, backoffVars, brk_ret, brk_calls, last_cooldown,
                   brk_raised, hook_calls>>

BreakerNext ==
    \/ BrkRecord429
    \/ BrkRecordSuccess
    \/ BrkCheck
    \/ BrkTick

\* the same breaker once the coordinator has registered its callback
HookedBreakerNext ==
    \/ \E h \in HookBehaviours : SetRateLimitCallback(h)
    \/ BrkRecord429
    \/ BrkRecordSuccess
    \/ BrkCheck
    \/ BrkTick

\* IntuisAPI freshly constructed, nobody calling, whatever its configuration
ApiFresh ==
    /\ clock = StartClock
    /\ consecutive_429s = 0
    /\ circuit_open_until = NoDeadline
    /\ last_request = 0
    /\ lock_holder = NoCaller
    /\ access_token = NoToken
    /\ refresh_token = FALSE
    /\ expiry = NoDeadline
    /\ ex_pc = "idle"
    /\ frames = <<>>
    /\ calls = 0
    /\ result = "none"
    /\ reqs = 0
    /\ n_sent = 0
    /\ n_refresh = 0
    /\ last_sent = 0
    /\ last_gap = 0
    /\ sent_wait = 0
    /\ last_status = 0
    /\ last_attempt = 0
    /\ last_sleep = 0
    /\ n_429 = 0
    /\ n_fail = 0
    /\ n_401 = 0
    /\ start_429s = 0
    /\ th_pc = [c \in Callers |-> "idle"]
    /\ wake_at = 0
    /\ th_calls = 0
    /\ th_returns = 0
    /\ th_slept = 0
    /\ contended = FALSE
    /\ last_return = 0
    /\ return_gap = 0
    /\ first_wait = 0
    /\ bo_attempt = 1
    /\ bo_delay = 0
    /\ bo_total = 0
    /\ brk_op = "none"
    /\ brk_ret = 0
    /\ brk_calls = 0
    /\ brk_ticks = 0
    /\ last_cooldown = 0
    /\ brk_raised = "none"
    /\ hook_calls = 0

\* IntuisAPI constructed with the default configuration
ApiInit ==
    /\ ApiFresh
    /\ threshold = DEFAULT_CIRCUIT_THRESHOLD
    /\ rate_limit_delay = DEFAULT_RATE_LIMIT_DELAY
    /\ on_rate_limit_callback = "unset"

\* IntuisData with no stored override and the default options, and IntuisAPI
\* freshly constructed
InitApi ==
    /\ HomeInit
    /\ PollInit
    /\ overrides = <<>>
    /\ options = DefaultOptions
    /\ ApiInit

SpecExec == InitApi /\ [][ExecNext]_vars

SpecThrottle == InitApi /\ [][ThrottleNext]_vars

\* the answers that matter to a request sent again: a success, a 401
ResendResponses == { resp \in Responses : resp.status \in {200, 401} }

\* _async_request called as its callers call it: with data=, with json= and
\* headers=, with full_url= and timeout=
ResendNext ==
    \/ \E g \in TokenGrants : Login(g)
    \/ \E args \in CallShapes : StartCall(args)
    \/ CheckCircuit
    \/ ThrottleAcquire
    \/ \E ro \in RefreshOutcomes : EnsureToken(ro)
    \/ \E resp \in ResendResponses, ro \in RefreshOutcomes : Request(resp, ro)
    \/ RequestFails

SpecResend == InitApi /\ [][ResendNext]_vars

\* IntuisAPI constructed with any of the configurable rate-limit delays
InitBackoff ==
    /\ HomeInit
    /\ PollInit
    /\ overrides = <<>>
    /\ options = DefaultOptions
    /\ ApiFresh
    /\ threshold = DEFAULT_CIRCUIT_THRESHOLD
    /\ rate_limit_delay \in RateLimitDelayOptions
    /\ on_rate_limit_callback = "unset"

SpecBackoff == InitBackoff /\ [][BackoffNext]_vars

\* a breaker constructed with any of the configurable thresholds
InitBreaker ==
    /\ HomeInit
    /\ PollInit
    /\ overrides = <<>>
    /\ options = DefaultOptions
    /\ ApiFresh
    /\ threshold \in CircuitThresholdOptions
    /\ rate_limit_delay = DEFAULT_RATE_LIMIT_DELAY
    /\ on_rate_limit_callback = "unset"

SpecBreaker == InitBreaker /\ [][BreakerNext]_vars

SpecHookedBreaker == InitBreaker /\ [][HookedBreakerNext]_vars

PollNext ==
    \/ \E err \in HomeStatusErrors : HomeStatusFails(err)
    \/ \E snapshot \in SUBSET Rooms : PollBegin(snapshot)
    \/ \E r \in Rooms : ReconcileRoom(r)
    \/ ReapplySucceeds
    \/ \E err \in ErrorKinds : ReapplyFails(err)
    \/ \E e \in {"none"} \cup ErrorKinds : PollFinish(e)
    \/ \E d \in PollIntervals : NextInterval(d)

InitPoll == PollInit /\ ApiInit /\ HomeInit

SpecPoll == InitPoll /\ [][PollNext]_vars

\* The entities of a running integration: the override map empty or holding
\* what earlier actions stored, the options of the config entry.
InitClimate ==
    /\ overrides \in UNION { [rs -> {Stored("away", 400)}] : rs \in SUBSET Rooms }
    /\ options \in UserOptionSets
    /\ cycle_start = overrides
    /\ persisted = overrides
    /\ PollFresh
    /\ ApiInit
    /\ EntityInit
    /\ room_target \in RoomTargets
    /\ DayIdle
    /\ TelemetryIdle

SpecClimate == InitClimate /\ [][ClimateNext]_vars

\* _get_logical_day about to be called at any hour of the sample dates, on
\* the hour or half past, with any reset hour
InitLogicalDay ==
    /\ PollInit
    /\ overrides = <<>>
    /\ options = DefaultOptions
    /\ ApiInit
    /\ EntityIdle
    /\ ld_now \in { DateTime(d, h, mi) : d \in SampleDates, h \in 0..23, mi \in {0, 30} }
    /\ ld_reset_hour \in 0..23
    /\ ld_result = <<>>
    /\ ld_calls = 0
    /\ TelemetryIdle

SpecLogicalDay == InitLogicalDay /\ [][GetLogicalDay]_vars

\* The first poll of a home at 23:59 (midnight ahead), at 01:58 (the reset
\* hour ahead) or at noon, in the system's timezone or one hour ahead of it,
\* on the daily or a real-time scale.
InitUpdate ==
    /\ PollFresh
    /\ overrides = <<>>
    /\ cycle_start = <<>>
    /\ persisted = <<>>
    /\ options \in { [DefaultOptions EXCEPT !.energy_scale = sc] : sc \in EnergyScales }
    /\ ApiInit
    /\ EntityIdle
    /\ DayIdle
    /\ TelemetryFresh
    /\ upd_now \in { DateTime(738899, 23, 59), DateTime(738900, 1, 58), DateTime(738900, 12, 0) }
    /\ tz_offset \in {0, 1}
    /\ bridged \in {Rooms, {"r1"}}

SpecUpdate == InitUpdate /\ [][UpdateNext]_vars

(***************************************************************************)
(* IntuisData.async_update as a whole: the reconciliation and the          *)
(* telemetry of the same cycle, with a success callback registered         *)
(***************************************************************************)
\* set_success_callback(callback), with a callback that behaves as `h`
SetSuccessCallback(h) ==
    /\ success_callback = "unset"
    /\ upd_pc = "idle"
    /\ upd_polls = 0
    /\ success_callback' = h
    /\ UNCHANGED <<pollVars, apiVars, entityVars, dayVars, upd_now, tz_offset, bridged,
                   last_logical_day, last_update_timestamp, minutes_counter, energy_cache,
                   upd_pc, upd_polls, upd_result, upd_raised_by, upd_snapshot,
                   upd_prev_day, upd_cleared, minutes_before, cache_before, cache_read,
                   energy, energy_requests, energy_outcome, success_calls>>

\* the day check, then async_get_home_status raises
CycleHomeStatusFails(err) ==
    /\ HomeStatusFailsData(err)
    /\ UpdHomeStatusFailsData(err)
    /\ UNCHANGED <<apiVars, entityVars, dayVars>>

\* the day check, the home status, the mapper, the options and the orphan sweep
CycleBegin(snapshot) ==
    /\ PollBeginData(DOMAIN snapshot)
    /\ UpdMapsRoomsData(snapshot)
    /\ UNCHANGED <<apiVars, entityVars, dayVars>>

\* a reapply raised: a caught error lets the loop go on, any other leaves
\* async_update before the pop, the save, the energy fetch and the timestamp
CycleReapplyFails(err) ==
    /\ ReapplyFailsData(err)
    /\ IF err \in ReapplyCaught
       THEN UNCHANGED <<upd_pc, upd_result, upd_raised_by>>
       ELSE /\ upd_pc' = "done"
            /\ upd_result' = err
            /\ upd_raised_by' = "reapply"
    /\ UNCHANGED <<apiVars, entityVars, dayVars, upd_now, tz_offset, bridged,
                   success_callback, last_logical_day, last_update_timestamp,
                   minutes_counter, energy_cache, upd_polls, upd_snapshot, upd_prev_day,
                   upd_cleared, minutes_before, cache_before, cache_read, energy,
                   energy_requests, energy_outcome, success_calls>>

\* how the energy requests of a cycle end here: all answered, the first
\* room's rate limited, or the first room's refused for its token
CycleEnergyOutcomes ==
    { [r \in Rooms |-> IF r = "r1" THEN o ELSE "ok"] : o \in {"ok", "RateLimitError", "InvalidAuth"} }

\* after the loop: the pop and the save, then async_get_config, the energy
\* fetch, the timestamp, the success callback and the return
CycleFinish(config_err, outcomes) ==
    /\ PollFinishData(config_err)
    /\ IF config_err = "none"
       THEN UpdFinishesData(outcomes)
       ELSE /\ \A r \in Rooms : outcomes[r] = "ok"
            /\ UpdConfigFailsData(config_err)
    /\ UNCHANGED <<apiVars, entityVars, dayVars>>

\* the coordinator waits for its update interval and polls again
CycleNextPoll(d) ==
    /\ NextIntervalData(d)
    /\ UpdNextPollData(d)
    /\ UNCHANGED <<apiVars, entityVars, dayVars>>

\* the answers of the home status here: both rooms with the first one
\* heating or none, or the second room alone
CycleSnapshots == { sn \in Snapshots : \A r \in DOMAIN sn : sn[r] => r = "r1" }

CycleNext ==
    \/ SetSuccessCallback("returns")
    \/ \E err \in UpdateErrors : CycleHomeStatusFails(err)
    \/ \E snapshot \in CycleSnapshots : CycleBegin(snapshot)
    \/ \E r \in Rooms : ReconcileRoom(r)
    \/ ReapplySucceeds
    \/ \E err \in {"RateLimitError", "InvalidAuth"} : CycleReapplyFails(err)
    \/ \E e \in {"none"} \cup UpdateErrors : \E outcomes \in CycleEnergyOutcomes :
          CycleFinish(e, outcomes)
    \/ \E d \in PollIntervals : CycleNextPoll(d)

\* the option sets with the frost-protect keys set, as the user actions read them
CycleOptionSets ==
    { o @@ [frost_protect_temp |-> 70, frost_protect_duration |-> 720] : o \in OptionSets }

\* the override the frost-protect preset stored `remaining` seconds before
\* its end, under options `opts`
StoredFrostProtect(opts, remaining) ==
    NewOverride("hg", opts.frost_protect_temp,
                StartWall + remaining - opts.frost_protect_duration * 60,
                opts.frost_protect_duration)

\* IntuisData constructed at noon with overrides loaded from storage, one
\* minute before or after their end (manual) or one minute before it
\* (frost protect), indefinite mode off or on
InitCycle ==
    /\ PollFresh
    /\ options \in CycleOptionSets
    /\ overrides \in UNION { [rs -> {Stored("manual", 60), Stored("manual", -60),
                                      StoredFrostProtect(options, 60)}] :
                               rs \in SUBSET Rooms }
    /\ cycle_start = overrides
    /\ persisted = overrides
    /\ ApiInit
    /\ HomeInit

SpecCycle == InitCycle /\ [][CycleNext]_vars

\* The heating-minutes counters over three polls of one afternoon: the
\* clock only moves forward, by the interval or by the backed-off one, and
\* a cycle may fail before or after the mapper has run.
HeatingPollAgain(gap) ==
    UpdNextPollWithin(gap, MaxHeatingPolls) /\ UNCHANGED <<pollVars, apiVars, entityVars, dayVars>>

HeatingNext ==
    \/ \E err \in {"CannotConnect"} : UpdHomeStatusFails(err)
    \/ \E snapshot \in CycleSnapshots : UpdMapsRooms(snapshot)
    \/ \E err \in {"CannotConnect"} : UpdConfigFails(err)
    \/ \E outcomes \in [Rooms -> {"ok"}] : UpdFinishes(outcomes)
    \/ \E gap \in PollIntervals : HeatingPollAgain(gap)

\* when IntuisData is constructed here
HeatingStart == DateTime(738900, 12, 0)

InitHeating ==
    /\ InitUpdate
    /\ upd_now = HeatingStart
    /\ tz_offset = 0
    /\ bridged = Rooms

SpecHeating == InitHeating /\ [][HeatingNext]_vars

(***************************************************************************)
(* A user action overlapping a poll cycle: both suspend at their awaited   *)
(* async_set_room_state and both write the one override map                *)
(***************************************************************************)
\* the user actions that pop the room's override and two that store one
RaceActions ==
    { <<"set_preset_mode", "schedule">>, <<"set_hvac_mode", "off">>,
      <<"set_hvac_mode", "auto">>, <<"set_preset_mode", "away">>,
      <<"set_temperature", 235>> }

\* what the executor gets of one async_set_room_state call
Sent(by, call) == [by |-> by, room |-> call.room, mode |-> call.mode]

\* A user action up to its `await self._api.async_set_room_state(...)`.
UserSends(kind, arg, r) ==
    LET call == [room |-> r, mode |-> ApiMode(kind, arg),
                 temp |-> ActionTemp(kind, arg, r, options),
                 duration |-> ActionDuration(kind, arg, options)]
    IN  /\ acts < MaxRaceActions
        /\ act_result # "pending"
        /\ acts' = acts + 1
        /\ act' = kind
        /\ act_arg' = arg
        /\ act_room' = r
        /\ act_calls' = <<call>>
        /\ act_result' = "pending"
        /\ act_outcome' = "none"
        /\ act_saves' = 0
        /\ act_before' = overrides
        /\ act_refresh' = FALSE
        /\ wire' = Append(wire, Sent("user", call))
        /\ UNCHANGED <<pollVars, apiVars, attr, room_target, dayVars, telemetryVars>>

\* The user action from the return of its await on: the override map as it
\* is now is popped or written, saved, and the refresh is requested.
UserReturns(outcome) ==
    LET call == act_calls[1]
        r == act_room
        at == wall + ExecSeconds
        entry == NewOverride(call.mode, call.temp, at, call.duration)
        after == IF WritesAfterCall(outcome)
                 THEN AfterAction(act, act_arg, r, overrides, entry)
                 ELSE overrides
        saved == /\ WritesAfterCall(outcome)
                 /\ OverridesChanged(act, act_arg, r, overrides)
                 /\ HasSaveHook
    IN  /\ act_result = "pending"
        /\ act_outcome' = outcome
        /\ wall' = at
        /\ overrides' = after
        /\ act_saves' = IF saved THEN 1 ELSE 0
        /\ persisted' = IF saved THEN after ELSE persisted
        /\ IF outcome = "ok"
           THEN /\ act_result' = "returned"
                /\ attr' = [attr EXCEPT ![r] = AttrAfter(act, act_arg, attr[r])]
                /\ act_refresh' = TRUE
           ELSE /\ act_result' = outcome
                /\ act_refresh' = FALSE
                /\ UNCHANGED attr
        /\ UNCHANGED <<options, poll_pc, polls, data_by_room, now_ts, indefinite_mode,
                       overrides_changed, rooms_to_clear, todo, inflight, setstate_calls,
                       save_calls, cycle_result, raised_by, cycle_start,
                       reapply_ok, reapply_failed, prev_failed, apiVars, room_target,
                       acts, act, act_arg, act_room, act_calls, act_before, wire,
                       dayVars, telemetryVars>>

\* One pass of the reconciler's loop up to its await, the request it sends
\* recorded in the order of sending.
RaceReconcileRoom(r) ==
    /\ ReconcileRoomData(r)
    /\ wire' = IF poll_pc' = "reapply"
               THEN Append(wire, Sent("poll", [room |-> r, mode |-> overrides[r].mode]))
               ELSE wire
    /\ UNCHANGED <<apiVars, attr, room_target, acts, act, act_arg, act_room, act_result,
                   act_calls, act_outcome, act_saves, act_before, act_refresh,
                   dayVars, telemetryVars>>

RaceNext ==
    \/ \E snapshot \in {Rooms} : PollBegin(snapshot)
    \/ \E r \in Rooms : RaceReconcileRoom(r)
    \/ ReapplySucceeds
    \/ \E err \in {"APIError"} : ReapplyFails(err)
    \/ \E e \in {"none"} : PollFinish(e)
    \/ \E d \in {DEFAULT_UPDATE_INTERVAL * 60} : NextInterval(d)
    \/ \E a \in RaceActions, r \in Rooms : UserSends(a[1], a[2], r)
    \/ \E outcome \in {"ok", "APIError"} : UserReturns(outcome)

\* IntuisData constructed with stored overrides that are due for a reapply,
\* the entities reading the same map; indefinite mode on
InitRace ==
    /\ PollFresh
    /\ options \in { o \in CycleOptionSets : o.indefinite_mode }
    /\ overrides \in UNION { [rs -> {Stored("manual", 60)}] : rs \in (SUBSET Rooms) \ {{}} }
    /\ cycle_start = overrides
    /\ persisted = overrides
    /\ ApiInit
    /\ EntityInit
    /\ room_target \in RoomTargets
    /\ DayIdle
    /\ TelemetryIdle

SpecRace == InitRace /\ [][RaceNext]_vars

(***************************************************************************)
(* Properties of the reconciliation (SpecPoll)                             *)
(***************************************************************************)
\* rooms the reconciler called async_set_room_state for in this cycle
CalledRooms == {c.room : c \in setstate_calls}

\* the cycle has ended and had got past the home-status fetch
CycleEndedPastFetch == poll_pc = "done" /\ raised_by # "home_status"

\* the snapshot rooms the loop over data_by_room visited before it ended
Visited == data_by_room \ todo

\* what a successful reapply leaves of the override `ov`
Renewed(ov, now, minutes) ==
    [ov EXCEPT !.end = now + minutes * 60, !.last_reapply = now]

Untouched(r) ==
    /\ r \in DOMAIN overrides
    /\ overrides[r].end = cycle_start[r].end
    /\ overrides[r].last_reapply = cycle_start[r].last_reapply

\* C4 as stated: a failed reapply, whatever error the executor raised,
\* leaves end and last_reapply untouched, does not make the cycle fail, and
\* is attempted again on the next cycle.
C4_AnyErrorKind ==
    CycleEndedPastFetch =>
        /\ \A f \in reapply_failed : Untouched(f.room)
        /\ raised_by # "reapply"
        /\ indefinite_mode =>
               \A r \in (prev_failed \cap data_by_room) \cap DOMAIN cycle_start :
                   r \in CalledRooms

\* C4 as amended: a reapply that fails with APIError, CannotConnect or
\* RateLimitError leaves end and last_reapply untouched, does not end the
\* cycle, and is attempted again in the next cycle whose loop reaches the
\* override; an InvalidAuth (or a raw client error of the token refresh)
\* leaves the timestamps untouched too, but is not caught: it leaves
\* async_update and the cycle returns no snapshot.
C4_CaughtErrorKinds ==
    CycleEndedPastFetch =>
        /\ \A f \in reapply_failed : Untouched(f.room)
        /\ (raised_by = "reapply") <=>
               (\E f \in reapply_failed :
                    f.err \notin {"APIError", "CannotConnect", "RateLimitError"})
        /\ raised_by = "reapply" => cycle_result = "raised"
        /\ indefinite_mode =>
               \A r \in (prev_failed \cap Visited) \cap DOMAIN cycle_start :
                   r \in CalledRooms

\* A second cycle that reapplies an override whose reapply failed, with a
\* caught error, in the cycle before, which itself returned its snapshot.
C4_Witness ==
    /\ CycleEndedPastFetch /\ indefinite_mode /\ polls = 2
    /\ \E r \in prev_failed : r \in CalledRooms /\ r \in reapply_ok

\* C5: in every cycle that gets past the home-status fetch the persistence
\* hook is invoked exactly once if the override set changed in the cycle and
\* not at all otherwise, and no change is left unpersisted.
C5_PersistOncePerChangedCycle ==
    CycleEndedPastFetch =>
        /\ save_calls = (IF overrides # cycle_start THEN 1 ELSE 0)
        /\ persisted = overrides

C7_NoOrphanAfterCycle ==
    CycleEndedPastFetch =>
        /\ \A r \in DOMAIN overrides : r \in data_by_room
        /\ (\E r \in DOMAIN cycle_start : r \notin data_by_room) => overrides_changed

\* C8: in indefinite mode, with every reapply call succeeding, a sticky
\* override that had not run out at one poll has not run out when the next
\* poll comes, at either interval of the coordinator.
C8_NeverExpiresBetweenPolls ==
    (/\ poll_pc = "idle" /\ polls > 0
     /\ cycle_result = "returned" /\ indefinite_mode /\ reapply_failed = {}) =>
        \A r \in data_by_room \cap DOMAIN overrides :
            (overrides[r].sticky /\ overrides[r].end >= now_ts) =>
                wall <= overrides[r].end

(***************************************************************************)
(* Properties of the request executor (SpecExec)                           *)
(***************************************************************************)
\* C1: no request, first attempt or retry, is sent while the circuit is
\* open: at the moment a request is sent, check() would return 0.
C1_NoRequestWhileCircuitOpen == sent_wait = 0

\* C2: a call that refreshed the token after a 401 and whose last response
\* is again a 401 ends with InvalidAuth (AuthError), having refreshed once.
C2_SecondUnauthorizedIsAuthError ==
    (ex_pc = "done" /\ n_refresh >= 1 /\ last_status = 401)
        => (result = "InvalidAuth" /\ n_refresh = 1)

\* C9: any two consecutive requests the executor sends, retries included,
\* are at least min_delay apart.
C9_RequestsMinDelayApart == reqs >= 2 => last_gap >= MIN_REQUEST_DELAY_MS

(***************************************************************************)
(* Properties of RequestThrottler.acquire (SpecThrottle)                   *)
(***************************************************************************)
\* callers between taking the lock and releasing it
InSection == {c \in Callers : th_pc[c] = "sleeping"}

\* C10: with concurrent callers of acquire(), at most one caller at a time
\* is in the delay computation (and it is the lock's holder), any two
\* returns of acquire() are at least min_delay apart, and the first acquire
\* ever made is not delayed.
C10_AcquireSerialisedAndSpaced ==
    /\ Cardinality(InSection) <= 1
    /\ \A c \in Callers : c \in InSection <=> lock_holder = c
    /\ th_returns >= 2 => return_gap >= MIN_REQUEST_DELAY_MS
    /\ first_wait = 0

\* an acquire found the lock held, one slept, and two have returned
C10_Witness ==
    /\ contended
    /\ th_slept >= 1
    /\ th_returns >= 2
    /\ return_gap >= MIN_REQUEST_DELAY_MS

\* the step is one pass of the retry loop, answered with `status`
\* (0: a transport failure or a timeout)
Answered(status) == reqs' = reqs + 1 /\ last_status' = status

\* C11: every 429 records one failure on the breaker; it is retried while
\* the loop's attempt number is below 5 and ends the call with
\* RateLimitError otherwise; a call whose responses are all 429 has sent
\* exactly 5 requests and recorded exactly 5 failures when it ends, and
\* ends with RateLimitError.
C11_RateLimitBudget ==
    [][Answered(429) =>
          /\ consecutive_429s' = consecutive_429s + 1
          /\ (ex_pc' = "send") <=> (last_attempt' < 5)
          /\ ex_pc' # "send" => (ex_pc' = "done" /\ result' = "RateLimitError")
          /\ (ex_pc' = "done" /\ n_429' = n_sent') =>
                 /\ n_sent' = 5
                 /\ consecutive_429s' = start_429s' + 5
                 /\ result' = "RateLimitError"]_vars

\* a call answered 429 five times has ended
C11_Witness ==
    /\ ex_pc = "done"
    /\ result = "RateLimitError"
    /\ n_sent = 5
    /\ n_429 = 5
    /\ consecutive_429s = start_429s + 5

\* the step is one pass of the retry loop that got a 5xx response or failed
\* in transport
AnsweredFailure ==
    /\ reqs' = reqs + 1
    /\ last_status' = 0 \/ (500 <= last_status' /\ last_status' < 600)

\* C13: the budgets are separate: a 5xx response or a transport failure is
\* retried whenever it is the first or the second of the call, however many
\* 429s the call got, and a 429 is retried whenever it is one of the first
\* four of the call, however many 5xx responses and transport failures.
C13_SeparateBudgets ==
    [][/\ (AnsweredFailure /\ n_fail' < 3) => ex_pc' = "send"
       /\ (Answered(429) /\ n_429' < 5) => ex_pc' = "send"]_vars

\* the step is one pass of the retry loop that got a 5xx response
Answered5xx == reqs' = reqs + 1 /\ 500 <= last_status' /\ last_status' < 600

C15_NetworkBudget ==
    [][Answered(0) =>
          /\ (ex_pc' = "send") <=> (last_attempt' < 3)
          /\ (ex_pc' = "send" /\ n_401' = 0) => last_sleep' = 1500 * 2 ^ (n_fail' - 1)
          /\ ex_pc' # "send" =>
                 (ex_pc' = "done" /\ result' = "CannotConnect" /\ last_sleep' = 0)]_vars

\* a call whose third request failed in transport has ended, and it had
\* slept 1.5 s and 3 s before
C15_Witness ==
    /\ ex_pc = "done"
    /\ result = "CannotConnect"
    /\ last_status = 0
    /\ n_sent = 3
    /\ n_fail = 3
    /\ last_sent - StartClock >= 1500 + 3000

\* the step is one pass of the retry loop that got a 4xx response other than
\* 401 and 429
AnsweredOther4xx ==
    /\ reqs' = reqs + 1
    /\ 400 <= last_status' /\ last_status' < 500
    /\ last_status' \notin {401, 429}

\* C16: a 4xx response other than 401 and 429 ends the call at once with
\* APIError: the call ends in the step that got the response, lasting one
\* exchange and no sleep, and that one request is all that was sent for it.
C16_Other4xxIsTerminal ==
    [][AnsweredOther4xx =>
          /\ ex_pc' = "done"
          /\ result' = "APIError"
          /\ last_sleep' = 0
          /\ clock' = clock + Latency
          /\ n_sent' = n_sent + 1]_vars

\* a call whose only request was answered 404 has ended
C16_Witness ==
    /\ ex_pc = "done"
    /\ result = "APIError"
    /\ last_status = 404
    /\ n_sent = 1

\* C17: with a null access token the call ends in _ensure_token with
\* InvalidAuth: no request has been sent by the call, no refresh is made (no
\* time passes in the step, and the token state is left as it was).
C17_NullTokenIsAuthError ==
    [][(ex_pc = "ensure" /\ access_token = NoToken) =>
          /\ ex_pc' = "done"
          /\ result' = "InvalidAuth"
          /\ reqs' = reqs
          /\ n_sent' = 0
          /\ n_refresh' = 0
          /\ clock' = clock
          /\ UNCHANGED tokenVars]_vars

\* a call made before any login has ended
C17_Witness ==
    /\ ex_pc = "done"
    /\ calls = 1
    /\ access_token = NoToken
    /\ result = "InvalidAuth"
    /\ n_sent = 0


(***************************************************************************)
(* Properties of the 429 delay (SpecBackoff)                               *)
(***************************************************************************)
\* C12: every sleep taken before the retry of a 429 is at most 60 s, for
\* every configurable rate_limit_delay and every Retry-After header.
C12_SleepCapped == bo_delay <= 60 * 1000

(***************************************************************************)
(* Properties of RateLimitCircuitBreaker (SpecBreaker)                     *)
(***************************************************************************)
\* the step is a call of the breaker's method `op`
Calls(op) == brk_calls' = brk_calls + 1 /\ brk_op' = op

\* C18: record_429 adds one to the counter; while the counter is below the
\* threshold it returns 0 and leaves open_until alone; from the threshold on
\* it returns min(30 s * 2^(counter - threshold), 120 s) and sets open_until
\* to now plus that; what it returns never goes down from one failure to
\* the next and is never more than 120 s.
C18_Record429Cooldown ==
    [][Calls("record_429") =>
          /\ consecutive_429s' = consecutive_429s + 1
          /\ IF consecutive_429s' < threshold
             THEN /\ brk_ret' = 0
                  /\ circuit_open_until' = circuit_open_until
             ELSE /\ brk_ret' =
                        (IF 30000 * 2 ^ (consecutive_429s' - threshold) <= 120000
                         THEN 30000 * 2 ^ (consecutive_429s' - threshold)
                         ELSE 120000)
                  /\ circuit_open_until' = clock + brk_ret'
          /\ brk_ret' >= last_cooldown
          /\ brk_ret' <= 120000]_vars

\* a failure recorded well past the threshold, where the maximum binds
C18_Witness ==
    /\ brk_op = "record_429"
    /\ consecutive_429s >= threshold + 3
    /\ brk_ret = 120000
    /\ circuit_open_until = clock + 120000

\* C19: once the counter has reached the threshold with no record_success
\* in between, the circuit is open when record_429 returns and a check made
\* then returns more than 0; record_success always leaves the counter at 0
\* and open_until cleared, and every check made until the next failure
\* returns 0.
C19_OpensAtThresholdResetsOnSuccess ==
    [][/\ (Calls("record_429") /\ consecutive_429s' >= threshold) =>
              (circuit_open_until' # NoDeadline /\ circuit_open_until' > clock')
       /\ (Calls("check") /\ brk_op = "record_429" /\ consecutive_429s >= threshold) =>
              brk_ret' > 0
       /\ Calls("record_success") =>
              (consecutive_429s' = 0 /\ circuit_open_until' = NoDeadline)
       /\ (Calls("check") /\ consecutive_429s = 0) => brk_ret' = 0]_vars

\* a check made right after the failure that reached the threshold
C19_Witness ==
    /\ brk_op = "check"
    /\ consecutive_429s = threshold
    /\ brk_ret > 0

\* C20: open_until is set only if the counter is at or above the threshold,
\* the counter is never negative, and a check made once the clock has
\* reached open_until clears it.
C20_OpenOnlyAtThreshold ==
    [][/\ circuit_open_until' # NoDeadline => consecutive_429s' >= threshold
       /\ consecutive_429s' >= 0
       /\ (Calls("check") /\ circuit_open_until # NoDeadline /\ clock >= circuit_open_until) =>
              (circuit_open_until' = NoDeadline /\ brk_ret' = 0)]_vars

\* a check that found the cooldown over and cleared open_until, the counter
\* still at the threshold
C20_Witness ==
    /\ brk_op = "check"
    /\ brk_ret = 0
    /\ circuit_open_until = NoDeadline
    /\ consecutive_429s >= threshold
    /\ brk_ticks > 0

(***************************************************************************)
(* Properties of the injected hooks (SpecHookedBreaker)                    *)
(***************************************************************************)
\* C21: a failure raised inside an injected hook never propagates into the
\* caller: whatever the rate-limit callback raises, a record_429 that opens
\* the circuit still returns the cooldown, with the circuit open.
C21_HookFailureNeverPropagates ==
    (brk_op = "record_429" /\ consecutive_429s >= threshold) =>
        /\ brk_raised = "none"
        /\ brk_ret = Cooldown(consecutive_429s)
        /\ circuit_open_until # NoDeadline

(***************************************************************************)
(* Properties of the user actions (SpecClimate)                            *)
(***************************************************************************)
\* C22: async_set_temperature(t) with t not None and configured manual
\* duration d calls the executor exactly once, with (room, "manual", t, d);
\* when the call got through, the room's override is {manual, t,
\* end = now + d*60, sticky, last_reapply = now} and the persistence hook was
\* invoked exactly once.
C22_SetTemperatureStoresOverride ==
    (act = "set_temperature" /\ act_arg # NoTemp) =>
        /\ act_calls = << [room |-> act_room, mode |-> "manual", temp |-> act_arg,
                           duration |-> options.manual_duration] >>
        /\ act_result = "returned" =>
              /\ act_room \in DOMAIN overrides
              /\ overrides[act_room] =
                    [mode |-> "manual", temp |-> act_arg,
                     end |-> wall + options.manual_duration * 60,
                     sticky |-> TRUE, last_reapply |-> wall]
              /\ act_saves = 1
              /\ persisted = overrides

\* a set_temperature that got through on a room that held an away override,
\* with a manual duration of 5 minutes
C22_Witness ==
    /\ act = "set_temperature"
    /\ act_arg = 235
    /\ act_result = "returned"
    /\ options.manual_duration = 5
    /\ act_room \in DOMAIN act_before
    /\ act_before[act_room].mode = "away"
    /\ overrides[act_room].end = wall + 300

\* C23: when the executor call of a user action fails, the error is raised to
\* the caller of the action, the override map is exactly as it was before
\* the action, and the persistence hook was not invoked.
C23_FailedActionLeavesOverrides ==
    act_outcome \in ErrorKinds =>
        /\ act_result = act_outcome
        /\ overrides = act_before
        /\ act_saves = 0

\* a preset that failed on a room whose override an earlier action stored,
\* while the other room holds one too
C23_Witness ==
    /\ act = "set_preset_mode"
    /\ act_arg = "boost"
    /\ act_outcome = "RateLimitError"
    /\ act_result = "RateLimitError"
    /\ DOMAIN act_before = Rooms
    /\ act_before[act_room].mode = "manual"

\* the last action was hvac OFF, hvac AUTO or preset schedule
LastActionCancelled ==
    \/ act = "set_hvac_mode" /\ act_arg \in {"off", "auto"}
    \/ act = "set_preset_mode" /\ act_arg = "schedule"

\* the mode the last action stands for
LastActionMode ==
    IF act = "set_preset_mode"
    THEN (IF act_arg = "frost_protect" THEN "hg" ELSE act_arg)
    ELSE "manual"

\* C24: after any sequence of successful user actions on a room, the room's
\* override entry reflects only the last action: absent after hvac OFF, hvac
\* AUTO or preset schedule, otherwise one sticky entry with that action's
\* mode and temperature; the entries of the other rooms are as they were.
C24_OverrideReflectsLastAction ==
    (act_result = "returned" /\ act_calls # <<>>) =>
        /\ IF LastActionCancelled
           THEN act_room \notin DOMAIN overrides
           ELSE /\ act_room \in DOMAIN overrides
                /\ overrides[act_room].sticky
                /\ overrides[act_room].mode = LastActionMode
                /\ overrides[act_room].temp = act_calls[1].temp
                /\ act = "set_temperature" => overrides[act_room].temp = act_arg
        /\ \A r \in Rooms \ {act_room} :
              /\ r \in DOMAIN overrides <=> r \in DOMAIN act_before
              /\ r \in DOMAIN overrides => overrides[r] = act_before[r]

\* two actions on one room: a set_temperature, then hvac AUTO takes the
\* manual override away again
C24_Witness ==
    /\ acts = 2
    /\ act = "set_hvac_mode"
    /\ act_arg = "auto"
    /\ act_result = "returned"
    /\ act_room \in DOMAIN act_before
    /\ act_before[act_room].mode = "manual"
    /\ act_before[act_room].temp = 235
    /\ act_room \notin DOMAIN overrides

\* C25: async_set_hvac_mode and async_set_preset_mode invoke the persistence
\* hook exactly once when the action changed the override map, and not at
\* all when hvac OFF, hvac AUTO or preset schedule met a room with no
\* override.
C25_SavesOnlyWhenChanged ==
    (act \in {"set_hvac_mode", "set_preset_mode"} /\ act_result = "returned") =>
        /\ act_saves <= 1
        /\ overrides # act_before => (act_saves = 1 /\ persisted = overrides)
        /\ (LastActionCancelled /\ act_room \notin DOMAIN act_before) =>
              (act_saves = 0 /\ overrides = act_before)

\* hvac OFF got through on a room with no override while the other room
\* holds one: nothing to save
C25_Witness ==
    /\ act = "set_hvac_mode"
    /\ act_arg = "off"
    /\ act_result = "returned"
    /\ act_room \notin DOMAIN act_before
    /\ act_before # <<>>
    /\ act_saves = 0

(***************************************************************************)
(* Properties of the logical day (SpecLogicalDay)                          *)
(***************************************************************************)
DaysInMonth(y, m) ==
    IF m = 2 THEN (IF y % 4 = 0 /\ (y % 100 # 0 \/ y % 400 = 0) THEN 29 ELSE 28)
    ELSE IF m \in {4, 6, 9, 11} THEN 30
    ELSE 31

\* the calendar date after <<y, m, d>>
NextCalendarDay(ymd) ==
    IF ymd[3] < DaysInMonth(ymd[1], ymd[2]) THEN <<ymd[1], ymd[2], ymd[3] + 1>>
    ELSE IF ymd[2] < 12 THEN <<ymd[1], ymd[2] + 1, 1>>
    ELSE <<ymd[1] + 1, 1, 1>>

\* today's calendar date of the sample dates, written out
CalendarDate(ordinal) ==
    IF ordinal = 738900 THEN <<2024, 1, 15>>
    ELSE IF ordinal = 738886 THEN <<2024, 1, 1>>
    ELSE IF ordinal = 738946 THEN <<2024, 3, 1>>
    ELSE <<2023, 3, 1>>

\* C26: logical_day(now, reset_hour) is yesterday's calendar date when
\* now.hour < reset_hour and today's calendar date otherwise, for every hour
\* and every reset_hour 0..23; with reset_hour 2, 01:30 on 2024-01-15 gives
\* 2024-01-14 and 02:00 gives 2024-01-15.
C26_LogicalDay ==
    ld_calls = 1 =>
        /\ IF Hour(ld_now) < ld_reset_hour
           THEN /\ NextCalendarDay(ld_result) = CalendarDate(ld_now.date)
                /\ ld_result # CalendarDate(ld_now.date)
           ELSE ld_result = CalendarDate(ld_now.date)
        /\ (ld_now = DateTime(738900, 1, 30) /\ ld_reset_hour = 2) => ld_result = <<2024, 1, 14>>
        /\ (ld_now = DateTime(738900, 2, 0) /\ ld_reset_hour = 2) => ld_result = <<2024, 1, 15>>

\* 00:30 on the first of March of a leap year, before a reset hour of 1:
\* the logical day is the 29th of February
C26_Witness ==
    /\ ld_calls = 1
    /\ ld_now = DateTime(738946, 0, 30)
    /\ ld_reset_hour = 1
    /\ ld_result = <<2024, 2, 29>>
\* the logical day of the poll in progress
PollLogicalDay == LogicalDay(upd_now, options.energy_reset_hour)

\* the poll in progress has passed its day check and has not yet fetched energy
PastDayCheck == upd_pc = "mapped" \/ (upd_pc = "done" /\ upd_raised_by = "home_status")

\* C27: on a poll whose logical day differs from the one the previous poll
\* observed, the energy cache and every room's heating-minutes counter are
\* cleared in that poll (only the rooms of this poll's answer have a counter
\* again, and the cache is empty until the energy fetch); on a poll whose
\* logical day is unchanged, and on the first poll, the cache is as it was and
\* no counter is removed or lowered.
C27_DayChangeClearsBoth ==
    upd_pc # "idle" =>
        IF upd_prev_day # <<>> /\ upd_prev_day # PollLogicalDay
        THEN /\ DOMAIN minutes_counter = DOMAIN upd_snapshot
             /\ \A r \in DOMAIN minutes_counter : minutes_counter[r] <= DeltaCap
             /\ PastDayCheck => energy_cache = EmptyCache
        ELSE /\ \A r \in DOMAIN minutes_before :
                   r \in DOMAIN minutes_counter /\ minutes_counter[r] >= minutes_before[r]
             /\ PastDayCheck => energy_cache = cache_before

\* a poll on a new logical day that found a day's cache and the counters of
\* two rooms, and left an empty cache and the counter of the one room it saw
C27_Witness ==
    /\ upd_pc = "mapped"
    /\ upd_prev_day # <<>>
    /\ upd_prev_day # PollLogicalDay
    /\ cache_before.date # <<>>
    /\ DOMAIN minutes_before = Rooms
    /\ DOMAIN minutes_counter = {"r2"}
    /\ energy_cache = EmptyCache
\* a step in which a poll runs its energy stage
EnergyStage == upd_pc = "mapped" /\ upd_pc' = "done" /\ upd_raised_by' # "get_config"

\* the hour and the date of the poll on the home's clock
HomeHour == NowLocal.second \div 3600

HomeToday == IsoFormat(NowLocal.date)

\* every room of the poll's answer got the cached value, and no request was made
ServedFromCache ==
    /\ energy_requests' = <<>>
    /\ cache_read'
    /\ DOMAIN energy' = DOMAIN upd_snapshot
    /\ \A r \in DOMAIN upd_snapshot \cap DOMAIN energy_cache.wh : energy'[r] = energy_cache.wh[r]

\* C28 as stated: on the daily scale a poll before reset_hour makes no energy
\* request, at or after it the rooms are served from the cache without a request
\* when the cached day is today and a fetch is made otherwise; on a real-time
\* scale every poll fetches and the cache is neither read nor written.
C28_AsStated ==
    [][EnergyStage =>
         IF options.energy_scale = "1day"
         THEN IF HomeHour < options.energy_reset_hour THEN energy_requests' = <<>>
              ELSE IF energy_cache.date = HomeToday THEN ServedFromCache
              ELSE energy_requests' # <<>>
         ELSE energy_requests' # <<>> /\ ~cache_read' /\ energy_cache' = energy_cache]_vars

\* a fetch is made exactly when a room of the answer has a bridge id
FetchesIfBridged == (energy_requests' # <<>>) <=> (DOMAIN upd_snapshot \cap bridged # {})

\* C28: on the daily scale a poll before reset_hour on the home's clock makes
\* no energy request, at or after it the rooms are served from the cache
\* without a request when the cached day is the home's today and otherwise a
\* fetch is made if a room of the answer has a bridge id; on a real-time scale
\* every poll with such a room fetches, and the cache is neither read nor
\* written.
C28_EnergyFetchPolicy ==
    [][EnergyStage =>
         IF options.energy_scale = "1day"
         THEN IF HomeHour < options.energy_reset_hour THEN energy_requests' = <<>>
              ELSE IF energy_cache.date = HomeToday THEN ServedFromCache
              ELSE FetchesIfBridged
         ELSE FetchesIfBridged /\ ~cache_read' /\ energy_cache' = energy_cache]_vars

\* a daily poll after the reset hour that served both rooms from the cache of
\* an earlier poll of the same day
C28_Witness ==
    /\ upd_pc = "done"
    /\ upd_result = "returned"
    /\ options.energy_scale = "1day"
    /\ cache_read
    /\ energy_requests = <<>>
    /\ DOMAIN energy = Rooms
    /\ energy_cache.date = HomeToday
    /\ \E r \in Rooms : energy[r] > 0
\* a rate limit, a connectivity failure, an API failure
SwallowedFailures == {"RateLimitError", "CannotConnect", "APIError"}

\* the poll has run its energy stage and some room's fetch failed that way
EnergyFetchFailed ==
    /\ upd_pc = "done"
    /\ \E r \in DOMAIN energy_outcome : energy_outcome[r] \in SwallowedFailures

\* no room's fetch ended with an error outside the named ones
OnlySwallowedFailures ==
    \A r \in DOMAIN energy_outcome : energy_outcome[r] \in {"ok"} \cup SwallowedFailures

\* C29: when the energy fetch of a room fails with a rate limit, a
\* connectivity or an API error (and no other room's fetch fails otherwise),
\* the poll still returns its snapshot, the failed room's energy is 0.0, every
\* room with a bridge id was asked, and every room that answered has its value.
C29_EnergyFailureSwallowed ==
    (EnergyFetchFailed /\ OnlySwallowedFailures) =>
        /\ upd_result = "returned"
        /\ upd_raised_by = "none"
        /\ last_update_timestamp = upd_now
        /\ DOMAIN energy_outcome = DOMAIN upd_snapshot \cap bridged
        /\ \A r \in DOMAIN energy_outcome :
              /\ r \in DOMAIN energy
              /\ energy_outcome[r] \in SwallowedFailures => energy[r] = 0
              /\ energy_outcome[r] = "ok" => energy[r] > 0

\* the first room's fetch was rate limited, the second was asked after it and
\* answered, and the poll returned
C29_Witness ==
    /\ upd_pc = "done"
    /\ upd_result = "returned"
    /\ energy_requests = <<"r1", "r2">>
    /\ energy_outcome["r1"] = "RateLimitError"
    /\ energy_outcome["r2"] = "ok"
    /\ energy["r1"] = 0
    /\ energy["r2"] > 0
\* the logical day did not change on this poll, so no reset lies between the
\* counters the poll found and the ones it left
NoResetThisPoll == upd_prev_day = <<>> \/ upd_prev_day = PollLogicalDay

\* what the poll added to the counter of room r
AddedMinutes(r) ==
    minutes_counter[r] - (IF r \in DOMAIN minutes_before THEN minutes_before[r] ELSE 0)

\* C30: in a poll without a logical-day reset no room's heating-minutes
\* counter is removed or lowered; a poll adds to a counter at most 1.5 times
\* the poll interval (180 seconds at the 2-minute default), and adds nothing
\* to a room that is not heating, to a room the answer does not hold, or
\* when no previous poll left a timestamp.
C30_MinutesMonotoneAndCapped ==
    (upd_pc # "idle" /\ NoResetThisPoll) =>
        /\ DOMAIN minutes_before \subseteq DOMAIN minutes_counter
        /\ \A r \in DOMAIN minutes_counter :
              /\ AddedMinutes(r) >= 0
              /\ AddedMinutes(r) <= (3 * DEFAULT_UPDATE_INTERVAL * 60) \div 2
              /\ (r \notin DOMAIN upd_snapshot \/ ~upd_snapshot[r]) => AddedMinutes(r) = 0
              /\ (upd_pc = "mapped" /\ last_update_timestamp = NoDateTime)
                    => AddedMinutes(r) = 0

\* a late poll (ten minutes after the previous one) added exactly the cap to
\* the heating room and nothing to the other
C30_Witness ==
    /\ upd_pc = "mapped"
    /\ NoResetThisPoll
    /\ last_update_timestamp # NoDateTime
    /\ SecondsBetween(upd_now, last_update_timestamp) = DEFAULT_MAX_UPDATE_INTERVAL * 60
    /\ DOMAIN upd_snapshot = Rooms
    /\ upd_snapshot["r1"]
    /\ ~upd_snapshot["r2"]
    /\ DOMAIN minutes_before = Rooms
    /\ AddedMinutes("r1") = 180
    /\ AddedMinutes("r2") = 0
\* a step in which the home-status fetch of a cycle fails
HomeStatusFailure == poll_pc = "idle" /\ poll_pc' = "done" /\ raised_by' = "home_status"

\* C31: when the home-status fetch of a cycle fails, async_update raises, and
\* the cycle leaves the override set and what was persisted as they were,
\* makes no setstate call, invokes neither the persistence hook nor the
\* success hook, and leaves last_update_timestamp unchanged.
C31_HomeStatusFailureAborts ==
    [][HomeStatusFailure =>
         /\ cycle_result' = "raised"
         /\ upd_result' \in ErrorKinds
         /\ overrides' = overrides
         /\ persisted' = persisted
         /\ setstate_calls' = {}
         /\ save_calls' = 0
         /\ success_calls' = 0
         /\ last_update_timestamp' = last_update_timestamp]_vars

\* the second cycle fails at the home status after a first one that returned,
\* with a success callback registered, in indefinite mode, and an override
\* that was due for a reapply at the time of the failure
C31_Witness ==
    /\ poll_pc = "done"
    /\ raised_by = "home_status"
    /\ upd_raised_by = "home_status"
    /\ polls = 2
    /\ success_callback = "returns"
    /\ last_update_timestamp # NoDateTime
    /\ last_update_timestamp # upd_now
    /\ options.indefinite_mode
    /\ \E r \in DOMAIN overrides : ReapplyDue(overrides[r], wall)
    /\ setstate_calls = {}
\* the duration option of an override's own mode, the one the user action
\* that stores such an override reads
OwnModeDuration(opts, mode) ==
    IF mode = "away" THEN opts.away_duration
    ELSE IF mode = "boost" THEN opts.boost_duration
    ELSE IF mode = "hg" THEN opts.frost_protect_duration
    ELSE opts.manual_duration

\* C32: the duration of every reapply call of the reconciler is the
\* configured duration of the override's own mode (manual_duration,
\* away_duration, boost_duration, frost_protect_duration for hg), and a
\* reapplied override ends that many minutes after the cycle's now_ts.
C32_ReapplyUsesOwnModeDuration ==
    /\ \A call \in setstate_calls : call.duration = OwnModeDuration(options, call.mode)
    /\ \A r \in reapply_ok :
          r \in DOMAIN overrides =>
              overrides[r].end = now_ts + OwnModeDuration(options, overrides[r].mode) * 60
C34_ResentRequestIsOriginal ==
    (Len(frames) = 2 /\ ex_pc = "send") =>
        Outgoing(frames[2].args) = Outgoing(frames[1].args)

\* the four error kinds _async_request raises itself
ExecutorErrors == {"InvalidAuth", "RateLimitError", "CannotConnect", "APIError"}

\* C35: a call of _async_request re-enters itself at most once and ends by
\* returning a response or raising one of its four error kinds.
C35_EndsKnownAfterOneReentry ==
    /\ n_refresh <= 1
    /\ ex_pc = "done" => result \in {"ok"} \cup ExecutorErrors

\* the setstate request sent last for room r
LastSent(r) ==
    LET idx == { i \in DOMAIN wire : wire[i].room = r }
    IN  wire[CHOOSE i \in idx : \A j \in idx : j <= i]

\* the reconciler sent a reapply for room r
Reapplied(r) == \E i \in DOMAIN wire : wire[i].by = "poll" /\ wire[i].room = r

\* C36: once a user action that cancels a room's override has returned and
\* the poll cycle that reapplied that room's override has ended, the last
\* setstate sent for the room is the cancel and the override map holds no
\* entry for the room.
C36_CancelOutlivesReapply ==
    (/\ act_result = "returned"
     /\ Cancels(act, act_arg)
     /\ Reapplied(act_room)
     /\ poll_pc = "done")
        => /\ LastSent(act_room).by = "user"
           /\ act_room \notin DOMAIN overrides

\* C37: the reconciler's "Update timestamps" after a reapply writes the
\* override that was reapplied: the cycle does not raise on an entry a user
\* action removed meanwhile, and the entry it stamps has the mode it sent.
C37_StampsTheReappliedOverride ==
    [][(poll_pc = "reapply" /\ poll_pc' # "reapply" /\ reapply_failed' = reapply_failed)
          => /\ raised_by' # "update_timestamps"
             /\ \A call \in inflight :
                    /\ call.room \in DOMAIN overrides
                    /\ overrides[call.room].mode = call.mode]_vars

\* C38: in the daily scale no poll serves from the cache, as a bridged
\* room's total of the day, the 0.0 that an earlier poll's failed fetch left
\* there.
C38_FailedFetchIsNotServed ==
    (upd_pc = "done" /\ cache_read) =>
        \A r \in (DOMAIN energy) \cap (DOMAIN energy_cache.wh) \cap bridged : energy[r] # 0

\* C39: in the daily scale, a poll that runs its energy stage on the logical
\* day the previous poll observed, and found a room's measured energy cached,
\* attaches the cached value to that room.
C39_CachedEnergyStaysAttached ==
    (/\ upd_pc = "done"
     /\ upd_raised_by \notin {"home_status", "get_config"}
     /\ options.energy_scale = "1day"
     /\ NoResetThisPoll
     /\ cache_before.date # <<>>)
        => \A r \in DOMAIN upd_snapshot \cap DOMAIN cache_before.wh :
              cache_before.wh[r] > 0 => (r \in DOMAIN energy /\ energy[r] = cache_before.wh[r])

\* C40: no room's heating-minutes counter exceeds the time elapsed since the
\* counter was created or last cleared, which is at most the time since
\* IntuisData was constructed.
C40_MinutesWithinElapsedTime ==
    \A r \in DOMAIN minutes_counter :
        minutes_counter[r] <= SecondsBetween(upd_now, HeatingStart)
====
